---- MODULE Spec2Model ----
(***************************************************************************)
(* The CSS design engine of css-utils.ts: walkCSS, the Color engine, the   *)
(* property registry, the value parsers, the four mode extractors,         *)
(* clampWithTracking, runSemanticRules, calculateAccessibility and the     *)
(* entry point parseAndValidateCSS, together with the settings -> CSS      *)
(* generators of the generator hook that produce the texts it reads back.  *)
(*                                                                         *)
(* Representation.  A CSS text is a frame (bare declarations, one rule,    *)
(* an unclosed rule, a stray closing brace, leading garbage) around an     *)
(* ordered list of declarations; a declaration value is the sequence of    *)
(* its lexemes (dimension, function, colour, word, comma, gradient).  The  *)
(* regular expressions of the source are applied to these lexemes: what a  *)
(* pattern requires of the characters (a unit, a sign, a following         *)
(* colour) is required of the lexeme.  A numeral keeps whether it has      *)
(* digits, so that parseFloat of a lone '.' is NaN.  A hex colour string   *)
(* '#rrggbb' is the triple of its channels; an alpha is held in            *)
(* hundredths; a luminance in ten-thousandths.  Source line and column     *)
(* numbers of declarations are not represented.                            *)
(***************************************************************************)
EXTENDS Integers, Sequences, FiniteSets, TLC

VARIABLES
    mode,       \* the EffectMode argument
    baseline,   \* the currentSettings argument (the merge seed)
    css,        \* the CSS text argument
    origin,     \* the settings a generated text was generated from, if any
    result,     \* the ParseResult returned, once the call has returned
    preset,     \* the userOverrides and passthroughCSS of the managed preset,
                \* whose mode is `mode` and whose baseSettings are `baseline`
    finalStyle, \* the style getFinalStyle returned last
    pc,         \* "idle" | "edited" | "done" | "applied" | "merged", and in
                \* the editor "mounted" | "crashed", in the hooks "queued"
    editor,     \* CSSCodeEditor: lastAppliedCSS, status and the settings
                \* handed to onSettingsChange last (its cssText is `css`, its
                \* settings prop `baseline`, its memoized parseResult `result`)
    presets,    \* useEnhancedPresetManager: the list of presets
    pending,    \* usePresetManagerWithPassthrough: the updaters queued by
                \* setPresets and not yet run
    returned,   \* what applyCustomCSSWithPassthrough returned last
    storage     \* the number of saveToStorage writes so far

\* the state of the components a specification does not exercise
hooks == <<editor, presets, pending, returned, storage>>

vars == <<mode, baseline, css, origin, result, preset, finalStyle, pc, hooks>>

\* The largest number of declarations in a hand-written text.
MaxDecls == 2

(***************************************************************************)
(* JavaScript numbers.  NaN is a value outside every range the model uses; *)
(* every comparison and Math function below treats it as JavaScript does.  *)
(***************************************************************************)
NaN == -1000000

IsNaN(x) == x = NaN

MathMax(a, b) == IF IsNaN(a) \/ IsNaN(b) THEN NaN ELSE IF a > b THEN a ELSE b

MathMin(a, b) == IF IsNaN(a) \/ IsNaN(b) THEN NaN ELSE IF a < b THEN a ELSE b

MathAbs(a) == IF IsNaN(a) THEN NaN ELSE IF a < 0 THEN -a ELSE a

\* Math.round(a / b) for b > 0: the nearest integer, halves towards +infinity.
RoundDiv(a, b) == IF IsNaN(a) THEN NaN ELSE (2 * a + b) \div (2 * b)

\* a < b, a > b, a <= b, a !== b on numbers
Lt(a, b) == ~IsNaN(a) /\ ~IsNaN(b) /\ a < b

Gt(a, b) == ~IsNaN(a) /\ ~IsNaN(b) /\ a > b

Le(a, b) == ~IsNaN(a) /\ ~IsNaN(b) /\ a <= b

StrictNe(a, b) == IsNaN(a) \/ IsNaN(b) \/ a # b

\* x || y || 0 on numbers: 0 and NaN are falsy
OrElse(x, y) == IF x # 0 /\ ~IsNaN(x) THEN x ELSE y

clamp(n, min, max) == MathMin(max, MathMax(min, n))

(***************************************************************************)
(* Lexemes of a declaration value.                                         *)
(***************************************************************************)
\* the numeral "12" or "-6"; Dot is the numeral "." (no digits)
Num(n) == [neg |-> n < 0, digits |-> TRUE, mag |-> IF n < 0 THEN -n ELSE n]

Dot == [neg |-> FALSE, digits |-> FALSE, mag |-> 0]

Dim(n, u) == [k |-> "dim", num |-> n, unit |-> u]

Px(n) == Dim(Num(n), "px")

Fn(name, n, u) == [k |-> "fn", name |-> name, num |-> n, unit |-> u]

\* rgba(r, g, b, a) with a in hundredths, NaN for the alpha "." that [\d.]+
\* admits and parseFloat cannot read; rgb(r, g, b) has no alpha
Rgba(r, g, b, a) == [k |-> "rgb", r |-> r, g |-> g, b |-> b, a |-> a, hasA |-> TRUE]

Rgb(r, g, b) == [k |-> "rgb", r |-> r, g |-> g, b |-> b, a |-> 100, hasA |-> FALSE]

\* a six-digit hex colour #rrggbb
HexTok(h) == [k |-> "hex", r |-> h[1], g |-> h[2], b |-> h[3]]

\* a hex colour of five digits, #12345: a length Color.fromHex returns null for
Hex5 == [k |-> "hex5"]

Word(w) == [k |-> "word", w |-> w]

Comma == [k |-> "comma"]

\* linear-gradient(<angle>deg, <stop>, <stop>)
Gradient(angle, stops) == [k |-> "gradient", angle |-> angle, stops |-> stops]

parseFloat(n) == IF ~n.digits THEN NaN ELSE IF n.neg THEN -n.mag ELSE n.mag

(***************************************************************************)
(* Color engine                                                            *)
(***************************************************************************)
\* the lower-case names every object literal inherits from Object.prototype
ObjectPrototypeKeys == {"constructor", "__proto__"}

\* threw: Color.parse did not return (a TypeError left it)
NullColor == [ok |-> FALSE, threw |-> FALSE, r |-> 0, g |-> 0, b |-> 0, a |-> 0]

ThrownColor == [ok |-> FALSE, threw |-> TRUE, r |-> 0, g |-> 0, b |-> 0, a |-> 0]

\* the private constructor: channels rounded and clamped to [0,255], alpha to [0,1]
NewColor(r, g, b, a) ==
    [ok |-> TRUE, threw |-> FALSE, r |-> clamp(r, 0, 255), g |-> clamp(g, 0, 255),
     b |-> clamp(b, 0, 255), a |-> clamp(a, 0, 100)]

fromHex(h) == NewColor(h[1], h[2], h[3], 100)

NAMED ==
    [white |-> <<255, 255, 255>>, black |-> <<0, 0, 0>>, red |-> <<255, 0, 0>>,
     green |-> <<0, 128, 0>>, blue |-> <<0, 0, 255>>, silver |-> <<192, 192, 192>>,
     gray |-> <<128, 128, 128>>, grey |-> <<128, 128, 128>>, navy |-> <<0, 0, 128>>,
     teal |-> <<0, 128, 128>>]

\* Color.parse on a whole (trimmed) value: the patterns are anchored, so the
\* value must be exactly one colour lexeme.  NAMED is an object literal, so
\* NAMED[v] is truthy for the names Object.prototype supplies too, and
\* Color.fromHex of that function or object calls its missing .replace
ColorParse(value) ==
    IF Len(value) # 1 THEN NullColor
    ELSE LET t == value[1] IN
         CASE t.k = "hex" -> fromHex(<<t.r, t.g, t.b>>)
           [] t.k = "rgb" -> NewColor(t.r, t.g, t.b, t.a)
           [] t.k = "word" ->
                IF t.w \in DOMAIN NAMED THEN fromHex(NAMED[t.w])
                ELSE IF t.w = "transparent" THEN NewColor(0, 0, 0, 0)
                ELSE IF t.w \in ObjectPrototypeKeys THEN ThrownColor
                ELSE NullColor
           [] OTHER -> NullColor

toHex(c) == <<c.r, c.g, c.b>>

\* linearize(c) of relativeLuminance, in ten-thousandths, for c = 0..255
Linearize ==
  <<
    0, 3, 6, 9, 12, 15, 18, 21, 24, 27, 30, 33, 37, 40, 44, 48,
    52, 56, 60, 65, 70, 75, 80, 86, 91, 97, 103, 110, 116, 123, 130, 137,
    144, 152, 160, 168, 176, 185, 194, 203, 212, 222, 232, 242, 252, 262, 273, 284,
    296, 307, 319, 331, 343, 356, 369, 382, 395, 409, 423, 437, 452, 467, 482, 497,
    513, 529, 545, 561, 578, 595, 612, 630, 648, 666, 685, 704, 723, 742, 762, 782,
    802, 823, 844, 865, 887, 908, 931, 953, 976, 999, 1022, 1046, 1070, 1095, 1119, 1144,
    1170, 1195, 1221, 1248, 1274, 1301, 1329, 1356, 1384, 1413, 1441, 1470, 1500, 1529, 1559, 1590,
    1620, 1651, 1683, 1714, 1746, 1779, 1812, 1845, 1878, 1912, 1946, 1981, 2016, 2051, 2086, 2122,
    2159, 2195, 2232, 2270, 2307, 2346, 2384, 2423, 2462, 2502, 2542, 2582, 2623, 2664, 2705, 2747,
    2789, 2831, 2874, 2918, 2961, 3005, 3050, 3095, 3140, 3185, 3231, 3278, 3325, 3372, 3419, 3467,
    3515, 3564, 3613, 3663, 3712, 3763, 3813, 3864, 3916, 3968, 4020, 4072, 4125, 4179, 4233, 4287,
    4342, 4397, 4452, 4508, 4564, 4621, 4678, 4735, 4793, 4851, 4910, 4969, 5029, 5089, 5149, 5210,
    5271, 5333, 5395, 5457, 5520, 5583, 5647, 5711, 5776, 5841, 5906, 5972, 6038, 6105, 6172, 6240,
    6308, 6376, 6445, 6514, 6584, 6654, 6724, 6795, 6867, 6939, 7011, 7084, 7157, 7231, 7305, 7379,
    7454, 7529, 7605, 7682, 7758, 7835, 7913, 7991, 8070, 8148, 8228, 8308, 8388, 8469, 8550, 8632,
    8714, 8796, 8879, 8963, 9047, 9131, 9216, 9301, 9387, 9473, 9560, 9647, 9734, 9823, 9911, 10000
  >>

relativeLuminance(c) ==
    (2126 * Linearize[c.r + 1] + 7152 * Linearize[c.g + 1] + 722 * Linearize[c.b + 1])
        \div 10000

(***************************************************************************)
(* CSS texts and the walker                                                *)
(*   "bare"       d1; d2; ...                                              *)
(*   "rule"       .sel { d1; d2; ... }                                     *)
(*   "unclosed"   .sel { d1; d2; ...            (no closing brace)         *)
(*   "strayClose" d1; d2; ... }                 (no opening brace)         *)
(*   "junk"       {{{not css d1; d2; ...                                   *)
(* semi tells whether the last declaration is terminated by ';'.           *)
(***************************************************************************)
Decl(p, v) == [property |-> p, value |-> v]

Text(shape, decls, semi) == [shape |-> shape, decls |-> decls, semi |-> semi]

Diag(sev, prop, msg) == [severity |-> sev, property |-> prop, message |-> msg]

\* what the fallback's first chunk holds before the ':' of its declaration
\* when the text starts with "{{{not css": the garbage joins the property
JunkPrefix == "{{not css "

\* the declarations the character scan emits: one per top-level ';', so a last
\* chunk that no ';' ends is never emitted
regexFallbackWalk(text) ==
    LET ended == IF text.semi \/ text.decls = <<>> THEN text.decls
                 ELSE SubSeq(text.decls, 1, Len(text.decls) - 1)
    IN  IF text.shape = "junk" /\ ended # <<>>
        THEN <<Decl(JunkPrefix \o ended[1].property, ended[1].value)>> \o Tail(ended)
        ELSE ended

\* postcss.parse throws a CssSyntaxError on an unclosed block, an unexpected
\* '}' and an unknown word
postcssThrows(text) == text.shape \in {"unclosed", "strayClose", "junk"}

\* a walker whose catch block reports the error and recovers nothing
walkCSSNoFallback(text) ==
    IF postcssThrows(text)
    THEN [declarations |-> <<>>, hasError |-> TRUE, escaped |-> FALSE]
    ELSE [declarations |-> text.decls, hasError |-> FALSE, escaped |-> FALSE]

\* escaped: an exception left the function (the try/catch lets none out)
walkCSS(text) ==
    IF postcssThrows(text)
    THEN [declarations |-> regexFallbackWalk(text), hasError |-> TRUE, escaped |-> FALSE]
    ELSE [declarations |-> text.decls, hasError |-> FALSE, escaped |-> FALSE]

syntaxError == Diag("error", "", "syntax")

(***************************************************************************)
(* Property registry and setting ranges                                    *)
(***************************************************************************)
Modes == {"liquid-glass", "glassmorphism", "neumorphism", "glow"}

GlassProperties ==
    {"background", "backdrop-filter", "-webkit-backdrop-filter", "border-radius",
     "border", "box-shadow", "opacity"}

\* the own keys of PROPERTIES_BY_MODE[mode]
PROPERTIES_BY_MODE ==
    [m \in Modes |->
        IF m = "neumorphism" THEN {"background", "border-radius", "box-shadow"}
        ELSE GlassProperties]

\* JavaScript's `prop in obj`: own keys and the prototype chain
InOperator(prop, keys) == prop \in keys \/ prop \in ObjectPrototypeKeys

SETTING_RANGES ==
    [m \in Modes |->
        CASE m = "liquid-glass" ->
               [blur |-> <<0, 60>>, opacity |-> <<0, 100>>, borderRadius |-> <<0, 50>>,
                bgAlpha |-> <<0, 100>>, borderAlpha |-> <<0, 100>>, borderWidth |-> <<0, 5>>,
                refractionIntensity |-> <<0, 100>>, shadowX |-> <<-20, 20>>,
                shadowY |-> <<-20, 20>>, shadowBlur |-> <<0, 80>>,
                shadowSpread |-> <<-20, 20>>, shadowAlpha |-> <<0, 100>>,
                saturation |-> <<50, 200>>, brightness |-> <<50, 200>>]
          [] m = "glassmorphism" ->
               [blur |-> <<0, 50>>, opacity |-> <<0, 100>>, borderRadius |-> <<0, 50>>,
                bgAlpha |-> <<0, 100>>, borderAlpha |-> <<0, 100>>, borderWidth |-> <<0, 5>>,
                shadowX |-> <<-20, 20>>, shadowY |-> <<-20, 20>>, shadowBlur |-> <<0, 60>>,
                shadowAlpha |-> <<0, 100>>, saturation |-> <<50, 200>>]
          [] m = "neumorphism" ->
               [borderRadius |-> <<0, 50>>, distance |-> <<1, 20>>,
                intensity |-> <<1, 50>>, blur |-> <<1, 40>>]
          [] m = "glow" ->
               [borderRadius |-> <<0, 100>>, bgAlpha |-> <<0, 100>>,
                glowIntensity |-> <<0, 100>>, glowSpread |-> <<0, 100>>,
                glowBlur |-> <<0, 200>>, innerGlow |-> <<0, 100>>,
                borderAlpha |-> <<0, 100>>, borderWidth |-> <<0, 5>>, blur |-> <<0, 40>>,
                saturation |-> <<50, 300>>, brightness |-> <<50, 300>>]]

\* the fields whose value is a string (a hex colour or the shape): typeof
\* value === 'number' is false of them
StringFields ==
    {"bgColor", "borderColor", "shadowColor", "glowColor", "lightColor", "darkColor",
     "shape"}

(***************************************************************************)
(* The default settings of each mode; a settings object lists its keys in  *)
(* this order (Object.entries follows insertion order).                    *)
(***************************************************************************)
defaultLiquidGlass ==
    [blur |-> 20, opacity |-> 80, borderRadius |-> 16, bgColor |-> <<255, 255, 255>>,
     bgAlpha |-> 12, borderColor |-> <<255, 255, 255>>, borderAlpha |-> 20,
     borderWidth |-> 1, refractionIntensity |-> 30, shadowX |-> 0, shadowY |-> 8,
     shadowBlur |-> 32, shadowSpread |-> 0, shadowColor |-> <<0, 0, 0>>,
     shadowAlpha |-> 25, saturation |-> 120, brightness |-> 110]

defaultGlassmorphism ==
    [blur |-> 16, opacity |-> 75, borderRadius |-> 12, bgColor |-> <<255, 255, 255>>,
     bgAlpha |-> 10, borderColor |-> <<255, 255, 255>>, borderAlpha |-> 18,
     borderWidth |-> 1, shadowX |-> 0, shadowY |-> 4, shadowBlur |-> 30,
     shadowColor |-> <<0, 0, 0>>, shadowAlpha |-> 20, saturation |-> 100]

defaultNeumorphism ==
    [borderRadius |-> 16, bgColor |-> <<224, 229, 236>>, distance |-> 6,
     intensity |-> 15, blur |-> 12, shape |-> "flat", lightColor |-> <<255, 255, 255>>,
     darkColor |-> <<163, 177, 198>>]

defaultGlow ==
    [borderRadius |-> 24, bgColor |-> <<26, 26, 46>>, bgAlpha |-> 85,
     glowColor |-> <<250, 204, 21>>, glowIntensity |-> 60, glowSpread |-> 30,
     glowBlur |-> 60, innerGlow |-> 20, borderColor |-> <<250, 204, 21>>,
     borderAlpha |-> 40, borderWidth |-> 1, blur |-> 8, saturation |-> 150,
     brightness |-> 110]

Defaults(m) ==
    CASE m = "liquid-glass" -> defaultLiquidGlass
      [] m = "glassmorphism" -> defaultGlassmorphism
      [] m = "neumorphism" -> defaultNeumorphism
      [] m = "glow" -> defaultGlow

FieldOrder(m) ==
    CASE m = "liquid-glass" ->
           <<"blur", "opacity", "borderRadius", "bgColor", "bgAlpha", "borderColor",
             "borderAlpha", "borderWidth", "refractionIntensity", "shadowX", "shadowY",
             "shadowBlur", "shadowSpread", "shadowColor", "shadowAlpha", "saturation",
             "brightness">>
      [] m = "glassmorphism" ->
           <<"blur", "opacity", "borderRadius", "bgColor", "bgAlpha", "borderColor",
             "borderAlpha", "borderWidth", "shadowX", "shadowY", "shadowBlur",
             "shadowColor", "shadowAlpha", "saturation">>
      [] m = "neumorphism" ->
           <<"borderRadius", "bgColor", "distance", "intensity", "blur", "shape",
             "lightColor", "darkColor">>
      [] m = "glow" ->
           <<"borderRadius", "bgColor", "bgAlpha", "glowColor", "glowIntensity",
             "glowSpread", "glowBlur", "innerGlow", "borderColor", "borderAlpha",
             "borderWidth", "blur", "saturation", "brightness">>

(***************************************************************************)
(* Semantic validation rules.  A rule without a property has property "".  *)
(***************************************************************************)
Rule(id, sev, prop) == [id |-> id, severity |-> sev, property |-> prop]

LIQUID_GLASS_RULES ==
    <<Rule("blur-performance", "warning", "blur"),
      Rule("opacity-blur-imbalance", "info", "bgAlpha"),
      Rule("border-invisible", "info", "borderAlpha"),
      Rule("refraction-saturation-conflict", "info", ""),
      Rule("shadow-invisible", "info", "shadowAlpha")>>

GLASSMORPHISM_RULES ==
    <<Rule("blur-performance", "warning", "blur"),
      Rule("opacity-blur-imbalance", "info", "bgAlpha"),
      Rule("saturation-extreme", "warning", "saturation"),
      Rule("border-too-wide", "info", "borderWidth")>>

NEUMORPHISM_RULES ==
    <<Rule("distance-blur-ratio", "info", "blur"),
      Rule("intensity-extreme", "warning", "intensity"),
      Rule("distance-flat", "info", "distance"),
      Rule("radius-mismatch", "info", "borderRadius")>>

GLOW_RULES ==
    <<Rule("glow-blur-extreme", "warning", "glowBlur"),
      Rule("glow-invisible", "info", "glowIntensity"),
      Rule("inner-glow-no-outer", "info", "")>>

\* rule.check(s) of the rule `id` of mode m
RuleCheck(m, id, s) ==
    CASE m = "liquid-glass" ->
           (CASE id = "blur-performance" -> Gt(s.blur, 40)
              [] id = "opacity-blur-imbalance" -> Gt(s.bgAlpha, 60) /\ Lt(s.blur, 8)
              [] id = "border-invisible" -> Lt(s.borderAlpha, 3)
              [] id = "refraction-saturation-conflict" ->
                   Gt(s.refractionIntensity, 70) /\ Lt(s.saturation, 80)
              [] id = "shadow-invisible" -> Lt(s.shadowAlpha, 3))
      [] m = "glassmorphism" ->
           (CASE id = "blur-performance" -> Gt(s.blur, 30)
              [] id = "opacity-blur-imbalance" -> Gt(s.bgAlpha, 60) /\ Lt(s.blur, 8)
              [] id = "saturation-extreme" -> Gt(s.saturation, 180)
              [] id = "border-too-wide" -> Gt(s.borderWidth, 3))
      [] m = "neumorphism" ->
           (CASE id = "distance-blur-ratio" -> Lt(s.blur, s.distance)
              [] id = "intensity-extreme" -> Gt(s.intensity, 35)
              [] id = "distance-flat" -> Le(s.distance, 1)
              [] id = "radius-mismatch" -> s.shape # "flat" /\ Lt(s.borderRadius, 4))
      [] m = "glow" ->
           (CASE id = "glow-blur-extreme" -> Gt(s.glowBlur, 150)
              [] id = "glow-invisible" -> Lt(s.glowIntensity, 5)
              [] id = "inner-glow-no-outer" ->
                   Gt(s.innerGlow, 40) /\ Lt(s.glowIntensity, 10))

(***************************************************************************)
(* CSS value parsers                                                       *)
(***************************************************************************)
RECURSIVE SplitFrom(_, _, _)
SplitFrom(value, i, buf) ==
    IF i > Len(value) THEN (IF buf = <<>> THEN <<>> ELSE <<buf>>)
    ELSE IF value[i].k = "comma"
         THEN (IF buf = <<>> THEN <<>> ELSE <<buf>>) \o SplitFrom(value, i + 1, <<>>)
         ELSE SplitFrom(value, i + 1, Append(buf, value[i]))

\* the layers between top-level commas; a colour's own commas are inside its lexeme
splitShadowLayers(value) == SplitFrom(value, 1, <<>>)

IsInset(t) == t.k = "word" /\ t.w = "inset"

\* <number>px, with an optional sign (-?[\d.]+px) or without ([\d.]+px)
IsPx(t, signed) == t.k = "dim" /\ t.unit = "px" /\ (signed \/ ~t.num.neg)

\* rgba?\([^)]+\) | #[0-9a-fA-F]{3,8}
IsShadowColor(t) == t.k \in {"rgb", "hex", "hex5"}

RemoveAt(seq, i) == SubSeq(seq, 1, i - 1) \o SubSeq(seq, i + 1, Len(seq))

NullShadow ==
    [ok |-> FALSE, x |-> 0, y |-> 0, blur |-> 0, hasSpread |-> FALSE, spread |-> 0,
     hasColor |-> FALSE, color |-> <<0, 0, 0>>, alpha |-> 0, inset |-> FALSE]

\* the smallest element of a non-empty set of indices
FirstIndex(S) == CHOOSE i \in S : \A j \in S : i <= j

\* a pattern whose optional spread takes no sign
MatchesWithUnsignedSpread(cleaned, i) ==
    /\ i + 4 <= Len(cleaned)
    /\ IsPx(cleaned[i], TRUE) /\ IsPx(cleaned[i + 1], TRUE)
    /\ IsPx(cleaned[i + 2], FALSE) /\ IsPx(cleaned[i + 3], FALSE)
    /\ IsShadowColor(cleaned[i + 4])

\* the pattern matches from lexeme i on, with a spread
MatchesWithSpread(cleaned, i) ==
    /\ i + 4 <= Len(cleaned)
    /\ IsPx(cleaned[i], TRUE) /\ IsPx(cleaned[i + 1], TRUE)
    /\ IsPx(cleaned[i + 2], FALSE) /\ IsPx(cleaned[i + 3], TRUE)
    /\ IsShadowColor(cleaned[i + 4])

\* the pattern matches from lexeme i on, without a spread
MatchesWithoutSpread(cleaned, i) ==
    /\ i + 3 <= Len(cleaned)
    /\ IsPx(cleaned[i], TRUE) /\ IsPx(cleaned[i + 1], TRUE)
    /\ IsPx(cleaned[i + 2], FALSE)
    /\ IsShadowColor(cleaned[i + 3])

\* the ParsedShadow of a match m[1..5] and the colour Color.parse(m[5]) gave
ShadowOfMatch(x, y, blur, sp, spread, color, inset) ==
    [ok |-> TRUE, x |-> parseFloat(x.num), y |-> parseFloat(y.num),
     blur |-> parseFloat(blur.num), hasSpread |-> sp,
     spread |-> IF sp THEN parseFloat(spread.num) ELSE 0,
     hasColor |-> color.ok, color |-> toHex(color), alpha |-> color.a, inset |-> inset]

\* the match that starts at lexeme i, the leftmost start
ShadowAt(cleaned, i, sp, inset) ==
    ShadowOfMatch(cleaned[i], cleaned[i + 1], cleaned[i + 2], sp, cleaned[i + 3],
                  ColorParse(<<cleaned[IF sp THEN i + 4 ELSE i + 3]>>), inset)

MatchShadow(cleaned, starts, inset) ==
    IF starts = {} THEN NullShadow
    ELSE ShadowAt(cleaned, FirstIndex(starts),
                  MatchesWithSpread(cleaned, FirstIndex(starts)), inset)

CleanedLayer(layer, insetAt) ==
    IF insetAt = {} THEN layer ELSE RemoveAt(layer, FirstIndex(insetAt))

MatchCleaned(cleaned, inset) ==
    MatchShadow(cleaned,
                {i \in 1..Len(cleaned) :
                    MatchesWithSpread(cleaned, i) \/ MatchesWithoutSpread(cleaned, i)},
                inset)

InsetAt(layer) == {i \in 1..Len(layer) : IsInset(layer[i])}

parseShadowLayer(layer) ==
    MatchCleaned(CleanedLayer(layer, InsetAt(layer)), InsetAt(layer) # {})

\* the first function lexeme `name(<number><unit>)` with an unsigned number and
\* one of the units the pattern allows
FilterArg(value, name, units) ==
    LET hits == {i \in 1..Len(value) :
                    /\ value[i].k = "fn" /\ value[i].name = name
                    /\ value[i].unit \in units /\ ~value[i].num.neg}
    IN  IF hits = {} THEN [has |-> FALSE, n |-> 0]
        ELSE [has |-> TRUE,
              n |-> parseFloat(value[CHOOSE i \in hits : \A j \in hits : i <= j].num)]

parseBackdropFilter(value) ==
    [blur |-> FilterArg(value, "blur", {"px"}),
     saturate |-> FilterArg(value, "saturate", {"%", ""}),
     brightness |-> FilterArg(value, "brightness", {"%", ""})]

BASE_FONT_PX == 16

NullUnit == [ok |-> FALSE, raw |-> 0, unit |-> "", px |-> 0, wasConverted |-> FALSE]

\* parseWithUnit on one lexeme: ^(-?[\d.]+)\s*(px|rem|em|%|vh|vw|pt|cm|mm)?$ .
\* px is Math.round(px * 10) / 10; the pt lengths of the model are multiples
\* of 3pt, whose tenths of a px make whole px, and it has no cm or mm length,
\* whose px value is never whole
parseWithUnit(t) ==
    IF ~(t.k = "dim" /\ t.unit \in {"", "px", "rem", "em", "%", "vh", "vw", "pt"})
    THEN NullUnit
    ELSE LET v == parseFloat(t.num)
             unit == IF t.unit = "" THEN "px" ELSE t.unit
         IN  IF IsNaN(v) THEN NullUnit
             ELSE IF unit \in {"rem", "em"}
                  THEN [ok |-> TRUE, raw |-> v, unit |-> unit, px |-> v * BASE_FONT_PX,
                        wasConverted |-> TRUE]
             ELSE IF unit = "pt"
                  THEN [ok |-> TRUE, raw |-> v, unit |-> unit,
                        px |-> RoundDiv(v * 40, 3) \div 10, wasConverted |-> TRUE]
                  ELSE [ok |-> TRUE, raw |-> v, unit |-> unit, px |-> v,
                        wasConverted |-> FALSE]

\* br.value.split(' ')[0]: the first lexeme, or nothing of an empty value
FirstLexemeUnit(value) == IF value = <<>> THEN NullUnit ELSE parseWithUnit(value[1])

BorderStyles == {"solid", "dashed", "dotted", "double", "groove", "ridge", "none", "hidden"}

\* parseBorder; the unsigned pattern [\d.]+(px|rem|em|pt) takes a dimension
\* without its sign, and removing the match leaves the sign behind
BorderWidthAt(value) ==
    {i \in 1..Len(value) : value[i].k = "dim" /\ value[i].unit \in {"px", "rem", "em"}}

BorderStyleAt(value) ==
    {i \in 1..Len(value) : value[i].k = "word" /\ value[i].w \in BorderStyles}

BorderWidthOf(value, widthAt) ==
    IF widthAt = {} THEN NullUnit
    ELSE parseWithUnit(Dim([value[FirstIndex(widthAt)].num EXCEPT !.neg = FALSE],
                           value[FirstIndex(widthAt)].unit))

\* the lexemes left once the width and the style keyword are removed
BorderRest(value, widthAt, styleAt) ==
    {i \in 1..Len(value) :
        /\ ~(widthAt # {} /\ i = FirstIndex(widthAt) /\ ~value[i].num.neg)
        /\ ~(styleAt # {} /\ i = FirstIndex(styleAt))}

\* Color.parse of what is left
BorderColorOf(value, widthAt, rest) ==
    IF Cardinality(rest) = 1 /\ ~(widthAt # {} /\ rest = {FirstIndex(widthAt)})
    THEN ColorParse(<<value[FirstIndex(rest)]>>) ELSE NullColor

BorderOf(parsed, color) ==
    [threw |-> color.threw, hasWidth |-> parsed.ok, width |-> parsed.px,
     hasColor |-> color.ok, color |-> toHex(color), alpha |-> color.a]

parseBorder(value) ==
    BorderOf(BorderWidthOf(value, BorderWidthAt(value)),
             BorderColorOf(value, BorderWidthAt(value),
                           BorderRest(value, BorderWidthAt(value), BorderStyleAt(value))))

(***************************************************************************)
(* Mode-specific extractors.  An extractor state is [s, d]: the settings   *)
(* copy being filled and the diagnostics pushed so far.                    *)
(***************************************************************************)
\* a lookup in which the first declaration of a property wins
GetFirstDeclared(decls, prop) ==
    LET at == {i \in 1..Len(decls) : decls[i].property = prop}
    IN  IF at = {} THEN [found |-> FALSE, value |-> <<>>]
        ELSE [found |-> TRUE, value |-> decls[CHOOSE i \in at : \A j \in at : i <= j].value]

\* propMap.get(prop): the last declaration of that property, if any
Get(decls, prop) ==
    LET at == {i \in 1..Len(decls) : decls[i].property = prop}
    IN  IF at = {} THEN [found |-> FALSE, value |-> <<>>]
        ELSE [found |-> TRUE, value |-> decls[CHOOSE i \in at : \A j \in at : j <= i].value]

\* seq[i] as a one-element sequence, empty when seq has no such element
Nth(seq, i) == IF i \in 1..Len(seq) THEN <<seq[i]>> ELSE <<>>

\* Array.prototype.find over the elements a test selected: the first of them,
\* as a one-element or empty sequence
First(selected) == Nth(selected, 1)

\* layers.map(parseShadowLayer).filter(Boolean)
ParsedLayers(value) ==
    LET layers == splitShadowLayers(value)
    IN  SelectSeq([i \in 1..Len(layers) |-> parseShadowLayer(layers[i])],
                  LAMBDA l : l.ok)

ApplyBackground(st, color) ==
    IF color.ok
    THEN [st EXCEPT !.s.bgColor = toHex(color), !.s.bgAlpha = color.a]
    ELSE [st EXCEPT !.d = Append(@, Diag("warning", "background",
                                         "unparseable-background"))]

BackgroundStep(decls, st) ==
    IF ~Get(decls, "background").found THEN st
    ELSE ApplyBackground(st, ColorParse(Get(decls, "background").value))

\* get('backdrop-filter') ?? get('-webkit-backdrop-filter')
BackdropDecl(decls) ==
    IF Get(decls, "backdrop-filter").found THEN Get(decls, "backdrop-filter")
    ELSE Get(decls, "-webkit-backdrop-filter")

ApplyFilter(s, f, withBrightness) ==
    LET s1 == IF f.blur.has THEN [s EXCEPT !.blur = f.blur.n] ELSE s
        s2 == IF f.saturate.has THEN [s1 EXCEPT !.saturation = f.saturate.n] ELSE s1
    IN  IF withBrightness /\ f.brightness.has
        THEN [s2 EXCEPT !.brightness = f.brightness.n] ELSE s2

BackdropWith(st, bd, withBrightness) ==
    IF bd.found /\ bd.value # <<>>
    THEN [st EXCEPT !.s = ApplyFilter(@, parseBackdropFilter(bd.value), withBrightness)]
    ELSE st

BackdropStep(decls, st, withBrightness) ==
    BackdropWith(st, BackdropDecl(decls), withBrightness)

ApplyRadius(st, found, parsed, report) ==
    IF found /\ parsed.ok
    THEN [s |-> [st.s EXCEPT !.borderRadius = parsed.px],
          d |-> IF report /\ parsed.wasConverted
                THEN Append(st.d, Diag("info", "border-radius", "converted"))
                ELSE st.d]
    ELSE st

BorderRadiusStep(decls, st, report) ==
    ApplyRadius(st, Get(decls, "border-radius").found,
                FirstLexemeUnit(Get(decls, "border-radius").value), report)

ApplyBorder(s, b) ==
    LET s1 == IF b.hasWidth THEN [s EXCEPT !.borderWidth = b.width] ELSE s
    IN  IF b.hasColor
        THEN [s1 EXCEPT !.borderColor = b.color, !.borderAlpha = b.alpha] ELSE s1

BorderStep(decls, st) ==
    IF Get(decls, "border").found
    THEN [st EXCEPT !.s = ApplyBorder(@, parseBorder(Get(decls, "border").value))]
    ELSE st

ApplyShadow(s, sh, withSpread) ==
    LET s1 == [s EXCEPT !.shadowX = sh.x, !.shadowY = sh.y, !.shadowBlur = sh.blur]
        s2 == IF withSpread /\ sh.hasSpread THEN [s1 EXCEPT !.shadowSpread = sh.spread]
              ELSE s1
    IN  IF sh.hasColor
        THEN [s2 EXCEPT !.shadowColor = sh.color, !.shadowAlpha = sh.alpha] ELSE s2

ShadowWith(st, hit, withSpread) ==
    IF hit # <<>> THEN [st EXCEPT !.s = ApplyShadow(@, hit[1], withSpread)] ELSE st

\* the first parsed layer that is not inset sets the drop shadow
ShadowStep(decls, st, withSpread) ==
    IF Get(decls, "box-shadow").found
    THEN ShadowWith(st,
                    First(SelectSeq(ParsedLayers(Get(decls, "box-shadow").value),
                              LAMBDA l : ~l.inset)),
                    withSpread)
    ELSE st

extractLiquidGlass(decls, current) ==
    ShadowStep(decls,
        BorderStep(decls,
            BorderRadiusStep(decls,
                BackdropStep(decls,
                    BackgroundStep(decls, [s |-> current, d |-> <<>>]), TRUE),
                TRUE)),
        TRUE)

\* an extractor that seeds the record with the mode's defaults (replacement,
\* not merge)
extractGlassmorphismFromDefaults(decls, current) ==
    ShadowStep(decls,
        BorderStep(decls,
            BorderRadiusStep(decls,
                BackdropStep(decls,
                    BackgroundStep(decls, [s |-> defaultGlassmorphism, d |-> <<>>]), FALSE),
                TRUE)),
        FALSE)

extractGlassmorphism(decls, current) ==
    ShadowStep(decls,
        BorderStep(decls,
            BorderRadiusStep(decls,
                BackdropStep(decls,
                    BackgroundStep(decls, [s |-> current, d |-> <<>>]), FALSE),
                TRUE)),
        FALSE)

\* ((angle % 360) + 360) % 360 and the two angle windows
ShapeOfAngle(angle, shape) ==
    LET normalized == IF IsNaN(angle) THEN NaN ELSE angle % 360
    IN  IF Lt(MathAbs(normalized - 145), 15) \/ Lt(MathAbs(normalized - 135), 15)
        THEN "convex"
        ELSE IF Lt(MathAbs(normalized - 315), 15) \/ Lt(MathAbs(normalized - 45), 15)
             THEN "concave"
             ELSE shape

ApplyGradient(s, g, stop) ==
    LET c == IF stop = <<>> THEN NullColor ELSE ColorParse(stop)
        s1 == [s EXCEPT !.shape = ShapeOfAngle(parseFloat(g.angle), @)]
    IN  IF c.ok THEN [s1 EXCEPT !.bgColor = toHex(c)] ELSE s1

ApplyNeuBackground(st, grads, flat) ==
    IF grads # <<>>
    THEN [st EXCEPT !.s = ApplyGradient(@, grads[1],
                                        First(SelectSeq(grads[1].stops, IsShadowColor)))]
    ELSE IF flat.ok THEN [st EXCEPT !.s.bgColor = toHex(flat)]
         ELSE st

NeuBackgroundStep(decls, st) ==
    IF ~Get(decls, "background").found THEN st
    ELSE ApplyNeuBackground(st,
             First(SelectSeq(Get(decls, "background").value, LAMBDA t : t.k = "gradient")),
             ColorParse(Get(decls, "background").value))

\* /\binset\b/.test(shadow.value)
PressedShape(s, value) ==
    IF \E i \in 1..Len(value) : IsInset(value[i]) THEN [s EXCEPT !.shape = "pressed"]
    ELSE s

\* the first outer layer darker than the background, else the first outer layer
DarkLayerOf(outer, bgLum) ==
    LET darker == First(SelectSeq(outer,
                      LAMBDA l : l.hasColor /\ relativeLuminance(fromHex(l.color)) < bgLum))
    IN  IF darker # <<>> THEN darker ELSE Nth(outer, 1)

\* the first outer layer lighter than the background, else the second outer layer
LightLayerOf(outer, bgLum) ==
    LET lighter == First(SelectSeq(outer,
                       LAMBDA l : l.hasColor /\ relativeLuminance(fromHex(l.color)) > bgLum))
    IN  IF lighter # <<>> THEN lighter ELSE Nth(outer, 2)

ApplyDarkLayer(s, dl) ==
    LET a == [s EXCEPT !.distance = MathAbs(OrElse(dl.x, OrElse(dl.y, 0))),
                       !.blur = dl.blur]
    IN  IF dl.hasColor THEN [a EXCEPT !.intensity = dl.alpha, !.darkColor = dl.color]
        ELSE a

ApplyLightLayer(s, lightLayer) ==
    IF lightLayer # <<>> /\ lightLayer[1].hasColor
    THEN [s EXCEPT !.lightColor = lightLayer[1].color] ELSE s

ApplyNeuLayers(d, s0, darkLayer, lightLayer) ==
    [s |-> ApplyLightLayer(IF darkLayer = <<>> THEN s0 ELSE ApplyDarkLayer(s0, darkLayer[1]),
                           lightLayer),
     d |-> IF lightLayer = <<>>
           THEN Append(d, Diag("info", "box-shadow", "auto-suggest")) ELSE d]

NeuShadowWith(d, s0, outer, bgLum) ==
    ApplyNeuLayers(d, s0, DarkLayerOf(outer, bgLum), LightLayerOf(outer, bgLum))

NeuShadowOf(d, s0, outer) ==
    NeuShadowWith(d, s0, outer, relativeLuminance(fromHex(s0.bgColor)))

NeuShadowStep(decls, st) ==
    IF Get(decls, "box-shadow").found
    THEN NeuShadowOf(st.d, PressedShape(st.s, Get(decls, "box-shadow").value),
                     SelectSeq(ParsedLayers(Get(decls, "box-shadow").value),
                               LAMBDA l : ~l.inset))
    ELSE st

extractNeumorphism(decls, current) ==
    NeuShadowStep(decls,
        NeuBackgroundStep(decls,
            BorderRadiusStep(decls, [s |-> current, d |-> <<>>], FALSE)))

ApplyOuterGlow(s, og) ==
    LET a == IF og.hasColor
             THEN [s EXCEPT !.glowColor = og.color,
                            !.glowIntensity = RoundDiv(og.alpha * 10, 6)]
             ELSE s
        b == [a EXCEPT !.glowBlur = og.blur]
    IN  IF og.hasSpread THEN [b EXCEPT !.glowSpread = og.spread] ELSE b

ApplyInnerGlow(s, inner) ==
    IF inner # <<>> THEN [s EXCEPT !.innerGlow = inner[1].blur] ELSE s

ApplyGlowLayers(s, best, inner) ==
    ApplyInnerGlow(IF best = <<>> THEN s ELSE ApplyOuterGlow(s, best[1]), inner)

\* the non-inset layer no other non-inset layer out-blurs, the earliest of
\* equals (the sort is stable)
WidestOuter(outer) ==
    First(SelectSeq(outer, LAMBDA l : \A j \in 1..Len(outer) : ~Gt(outer[j].blur, l.blur)))

GlowShadowWith(st, parsed) ==
    [st EXCEPT !.s = ApplyGlowLayers(@, WidestOuter(SelectSeq(parsed, LAMBDA l : ~l.inset)),
                                     First(SelectSeq(parsed, LAMBDA l : l.inset)))]

GlowShadowStep(decls, st) ==
    IF Get(decls, "box-shadow").found
    THEN GlowShadowWith(st, ParsedLayers(Get(decls, "box-shadow").value))
    ELSE st

extractGlow(decls, current) ==
    GlowShadowStep(decls,
        BorderStep(decls,
            BorderRadiusStep(decls,
                BackdropStep(decls,
                    BackgroundStep(decls, [s |-> current, d |-> <<>>]), TRUE),
                TRUE)))

(***************************************************************************)
(* Clamping, semantic rules, accessibility                                 *)
(***************************************************************************)
\* typeof value === 'number' && ranges[key]
Ranged(m, key) == key \notin StringFields /\ key \in DOMAIN SETTING_RANGES[m]

ClampOf(m, key, value) == clamp(value, SETTING_RANGES[m][key][1], SETTING_RANGES[m][key][2])

\* [settings, clampedFields, diagnostics]: the clamped copy, and one entry and
\* one info diagnostic per key whose clamped value !== its value, in key order
clampWithTracking(m, settings) ==
    LET changed(key) == Ranged(m, key) /\ StrictNe(ClampOf(m, key, settings[key]), settings[key])
        keys == SelectSeq(FieldOrder(m), changed)
    IN  [settings |-> [key \in DOMAIN settings |->
                          IF changed(key) THEN ClampOf(m, key, settings[key])
                          ELSE settings[key]],
         clampedFields |-> keys,
         diagnostics |-> [i \in 1..Len(keys) |-> Diag("info", keys[i], "clamped")]]

RulesOf(m) ==
    CASE m = "liquid-glass" -> LIQUID_GLASS_RULES
      [] m = "glassmorphism" -> GLASSMORPHISM_RULES
      [] m = "glow" -> GLOW_RULES
      [] OTHER -> NEUMORPHISM_RULES

RuleDiag(rule) == Diag(rule.severity, rule.property, rule.id)

\* a runner that stops at the first rule that fires
runSemanticRulesFirstMatch(m, settings) ==
    LET fired == SelectSeq(RulesOf(m), LAMBDA rule : RuleCheck(m, rule.id, settings))
    IN  IF fired = <<>> THEN <<>> ELSE <<RuleDiag(fired[1])>>

\* the diagnostics of every rule whose check holds, in rule order
runSemanticRules(m, settings) ==
    LET fired == SelectSeq(RulesOf(m), LAMBDA rule : RuleCheck(m, rule.id, settings))
    IN  [i \in 1..Len(fired) |-> RuleDiag(fired[i])]

NoAccessibility ==
    [present |-> FALSE, contrastRatio |-> 0, passesAA |-> FALSE, passesAAA |-> FALSE,
     recommendedTextColor |-> <<0, 0, 0>>]

\* an analysis that ignores the alpha of the surface
calculateAccessibilityOpaque(m, settings) ==
    LET lum == relativeLuminance(fromHex(settings.bgColor))
        E6 == lum * 100
        blackContrast == E6 \div 500 + 100
        whiteContrast == 105000000 \div (E6 + 50000)
        contrastRatio == IF blackContrast > whiteContrast THEN blackContrast
                         ELSE whiteContrast
    IN  [present |-> TRUE,
         contrastRatio |-> contrastRatio,
         passesAA |-> contrastRatio >= 450,
         passesAAA |-> contrastRatio >= 700,
         recommendedTextColor |-> IF E6 + 50000 <= 229128 THEN <<255, 255, 255>>
                                  ELSE <<0, 0, 0>>]

\* contrastRatio is held in hundredths, rounded down.  With the effective
\* luminance e in millionths (E6): black contrast (e + 0.05)/0.05 = 20e + 1,
\* white contrast 1.05/(e + 0.05), and white > black iff (e + 0.05)^2 < 0.0525,
\* i.e. E6 + 50000 <= 229128.
calculateAccessibility(m, settings) ==
    LET bgAlpha == IF m = "neumorphism" THEN 100 ELSE settings.bgAlpha
        lum == relativeLuminance(fromHex(settings.bgColor))
        E6 == lum * bgAlpha + 5000 * (100 - bgAlpha)
        blackContrast == E6 \div 500 + 100
        whiteContrast == 105000000 \div (E6 + 50000)
        contrastRatio == IF blackContrast > whiteContrast THEN blackContrast
                         ELSE whiteContrast
    IN  IF IsNaN(bgAlpha)
        THEN [present |-> TRUE, contrastRatio |-> NaN, passesAA |-> FALSE,
              passesAAA |-> FALSE, recommendedTextColor |-> <<0, 0, 0>>]
        ELSE [present |-> TRUE,
              contrastRatio |-> contrastRatio,
              passesAA |-> contrastRatio >= 450,
              passesAAA |-> contrastRatio >= 700,
              recommendedTextColor |-> IF E6 + 50000 <= 229128 THEN <<255, 255, 255>>
                                       ELSE <<0, 0, 0>>]

(***************************************************************************)
(* Main entry point                                                        *)
(***************************************************************************)
NullSettings == [null |-> TRUE]

Ghost(decl) == [property |-> decl.property, value |-> decl.value]

\* one ghost entry per declaration whose property is not `in` the vocabulary
GhostsOf(m, declarations) ==
    LET ghosts == SelectSeq(declarations,
                      LAMBDA decl : ~InOperator(decl.property, PROPERTIES_BY_MODE[m]))
    IN  [i \in 1..Len(ghosts) |-> Ghost(ghosts[i])]

\* an exception leaves the extractor: Color.parse is called, outside any try,
\* on the whole background value and on what parseBorder has left of a border
ExtractThrows(m, declarations) ==
    \/ /\ Get(declarations, "background").found
       /\ ColorParse(Get(declarations, "background").value).threw
    \/ /\ m # "neumorphism"
       /\ Get(declarations, "border").found
       /\ parseBorder(Get(declarations, "border").value).threw

Extract(m, declarations, current) ==
    CASE m = "liquid-glass" -> extractLiquidGlass(declarations, current)
      [] m = "glassmorphism" -> extractGlassmorphism(declarations, current)
      [] m = "glow" -> extractGlow(declarations, current)
      [] OTHER -> extractNeumorphism(declarations, current)

ParseFailedOnAnyError(w) == w.hasError

\* declarations.length === 0 && syntaxError
ParseFailed(w) == w.declarations = <<>> /\ w.hasError

\* an assembly that runs the semantic rules before it reports the clamps
AssembleRulesFirst(m, syntax, raw, clamped, ghosts) ==
    [threw |-> FALSE,
     settings |-> clamped.settings,
     diagnostics |-> syntax \o raw.d \o runSemanticRules(m, clamped.settings)
                         \o clamped.diagnostics,
     ghostProperties |-> ghosts,
     clampedFields |-> clamped.clampedFields,
     accessibility |-> calculateAccessibility(m, clamped.settings)]

\* the result of a walk that found something to extract
Assemble(m, syntax, raw, clamped, ghosts) ==
    [threw |-> FALSE,
     settings |-> clamped.settings,
     diagnostics |-> syntax \o raw.d \o clamped.diagnostics
                         \o runSemanticRules(m, clamped.settings),
     ghostProperties |-> ghosts,
     clampedFields |-> clamped.clampedFields,
     accessibility |-> calculateAccessibility(m, clamped.settings)]

Extracted(m, syntax, raw, ghosts) ==
    Assemble(m, syntax, raw, clampWithTracking(m, raw.s), ghosts)

\* threw: an exception left the call instead of a ParseResult
ParseWalked(m, w, currentSettings) ==
    IF w.escaped
    THEN [threw |-> TRUE, settings |-> NullSettings, diagnostics |-> <<>>,
          ghostProperties |-> <<>>, clampedFields |-> <<>>,
          accessibility |-> NoAccessibility]
    ELSE IF ParseFailed(w)
    THEN [threw |-> FALSE, settings |-> NullSettings, diagnostics |-> <<syntaxError>>,
          ghostProperties |-> <<>>, clampedFields |-> <<>>,
          accessibility |-> NoAccessibility]
    ELSE IF ExtractThrows(m, w.declarations)
    THEN [threw |-> TRUE, settings |-> NullSettings, diagnostics |-> <<>>,
          ghostProperties |-> <<>>, clampedFields |-> <<>>,
          accessibility |-> NoAccessibility]
    ELSE Extracted(m, IF w.hasError THEN <<syntaxError>> ELSE <<>>,
                   Extract(m, w.declarations, currentSettings),
                   GhostsOf(m, w.declarations))

parseAndValidateCSS(m, text, currentSettings) ==
    ParseWalked(m, walkCSS(text), currentSettings)

\* an extractor that fills the caller's object: const s = current
HeapAfterExtractInPlace(current, written) == [current |-> written, s |-> written]

\* const s = { ...current }: of the two objects, the caller's and the
\* extractor's s, only s receives what the extractor writes (the fields are
\* strings and numbers, so the shallow copy shares nothing)
HeapAfterExtract(current, written) == [current |-> current, s |-> written]

\* the caller's settings object once the call is over; clampWithTracking
\* writes to out = { ...settings }, a copy of the extractor's s
CurrentAfterParse(m, w, currentSettings) ==
    IF w.escaped \/ ParseFailed(w) THEN currentSettings
    ELSE HeapAfterExtract(currentSettings,
                          Extract(m, w.declarations, currentSettings).s).current

(***************************************************************************)
(* The generators: settings -> CSS text                                    *)
(***************************************************************************)
\* rgba(r, g, b, a) of a hex colour, the alpha given in hundredths
RgbaOf(hex, a) == Rgba(hex[1], hex[2], hex[3], a)

Zero == Dim(Num(0), "")

FilterValue(s, withBrightness) ==
    <<Fn("blur", Num(s.blur), "px"), Fn("saturate", Num(s.saturation), "%")>>
        \o (IF withBrightness THEN <<Fn("brightness", Num(s.brightness), "%")>> ELSE <<>>)

BorderValue(s) ==
    <<Px(s.borderWidth), Word("solid"), RgbaOf(s.borderColor, s.borderAlpha)>>

\* outer and mid layers start "0 0" without a unit; toFixed(2) of intensity * 0.6
\* is round(glowIntensity * 6 / 10) hundredths
generateGlowCSS(s) ==
    LET outerShadow == <<Zero, Zero, Px(s.glowBlur), Px(s.glowSpread),
                         RgbaOf(s.glowColor, RoundDiv(s.glowIntensity * 6, 10))>>
        midShadow == <<Zero, Zero, Px(RoundDiv(s.glowBlur, 2)),
                       Px(RoundDiv(s.glowSpread * 2, 5)),
                       RgbaOf(s.glowColor, RoundDiv(s.glowIntensity * 3, 10))>>
        innerShadow == IF s.innerGlow > 0
                       THEN <<Comma, Word("inset"), Zero, Zero,
                              Px(RoundDiv(s.innerGlow * 4, 5)),
                              RgbaOf(s.glowColor, RoundDiv(s.innerGlow, 2))>>
                       ELSE <<>>
    IN  Text("rule",
             <<Decl("background", <<RgbaOf(s.bgColor, s.bgAlpha)>>),
               Decl("border-radius", <<Px(s.borderRadius)>>),
               Decl("border", BorderValue(s)),
               Decl("box-shadow", outerShadow \o <<Comma>> \o midShadow \o innerShadow),
               Decl("backdrop-filter", FilterValue(s, TRUE)),
               Decl("-webkit-backdrop-filter", FilterValue(s, TRUE))>>,
             TRUE)

generateLiquidGlassCSS(s) ==
    Text("rule",
         <<Decl("background", <<RgbaOf(s.bgColor, s.bgAlpha)>>),
           Decl("backdrop-filter", FilterValue(s, TRUE)),
           Decl("-webkit-backdrop-filter", FilterValue(s, TRUE)),
           Decl("border-radius", <<Px(s.borderRadius)>>),
           Decl("border", BorderValue(s)),
           Decl("box-shadow", <<Px(s.shadowX), Px(s.shadowY), Px(s.shadowBlur),
                                Px(s.shadowSpread), RgbaOf(s.shadowColor, s.shadowAlpha)>>)>>,
         TRUE)

generateGlassmorphismCSS(s) ==
    Text("rule",
         <<Decl("background", <<RgbaOf(s.bgColor, s.bgAlpha)>>),
           Decl("backdrop-filter", FilterValue(s, FALSE)),
           Decl("-webkit-backdrop-filter", FilterValue(s, FALSE)),
           Decl("border-radius", <<Px(s.borderRadius)>>),
           Decl("border", BorderValue(s)),
           Decl("box-shadow", <<Px(s.shadowX), Px(s.shadowY), Px(s.shadowBlur),
                                RgbaOf(s.shadowColor, s.shadowAlpha)>>)>>,
         TRUE)

\* Math.round(2.55 * 5)
ShadeAmount == 13

lighten(hex) ==
    Rgb(MathMin(255, hex[1] + ShadeAmount), MathMin(255, hex[2] + ShadeAmount),
        MathMin(255, hex[3] + ShadeAmount))

darken(hex) ==
    Rgb(MathMax(0, hex[1] - ShadeAmount), MathMax(0, hex[2] - ShadeAmount),
        MathMax(0, hex[3] - ShadeAmount))

\* "-${d}px": the minus sign is written in front of whatever d prints
MinusPx(d) == Dim([neg |-> TRUE, digits |-> TRUE, mag |-> d], "px")

generateNeumorphismCSS(s) ==
    LET d == s.distance
        b == s.blur
        darkLayer == <<Px(d), Px(d), Px(b), RgbaOf(s.darkColor, s.intensity)>>
        lightLayer == <<MinusPx(d), MinusPx(d), Px(b), RgbaOf(s.lightColor, s.intensity)>>
        shadow == IF s.shape = "pressed"
                  THEN <<Word("inset")>> \o darkLayer \o <<Comma, Word("inset")>> \o lightLayer
                  ELSE darkLayer \o <<Comma>> \o lightLayer
        background ==
            CASE s.shape = "concave" ->
                   <<Gradient(Num(145), <<darken(s.bgColor), lighten(s.bgColor)>>)>>
              [] s.shape = "convex" ->
                   <<Gradient(Num(145), <<lighten(s.bgColor), darken(s.bgColor)>>)>>
              [] OTHER -> <<HexTok(s.bgColor)>>
    IN  Text("rule",
             <<Decl("border-radius", <<Px(s.borderRadius)>>),
               Decl("background", background),
               Decl("box-shadow", shadow)>>,
             TRUE)

generateCSSForPreset(m, s) ==
    CASE m = "liquid-glass" -> generateLiquidGlassCSS(s)
      [] m = "glassmorphism" -> generateGlassmorphismCSS(s)
      [] m = "glow" -> generateGlowCSS(s)
      [] OTHER -> generateNeumorphismCSS(s)

(***************************************************************************)
(* The preset manager with passthrough CSS.  A Record<string, ...> is the  *)
(* sequence of its entries [key, value] in insertion order, keys unique.   *)
(***************************************************************************)
Entry(key, value) == [key |-> key, value |-> value]

Has(obj, key) == \E i \in 1..Len(obj) : obj[i].key = key

Lookup(obj, key) == obj[CHOOSE i \in 1..Len(obj) : obj[i].key = key].value

\* obj[key] = value: an existing key keeps its place
Put(obj, key, value) ==
    IF Has(obj, key)
    THEN [i \in 1..Len(obj) |-> IF obj[i].key = key THEN Entry(key, value) ELSE obj[i]]
    ELSE Append(obj, Entry(key, value))

\* { ...a, ...b }, and Object.assign(a, b)
RECURSIVE Spread(_, _)
Spread(a, b) == IF b = <<>> THEN a ELSE Spread(Put(a, b[1].key, b[1].value), Tail(b))

EFFECT_CSS_PROPERTIES ==
    {"backdrop-filter", "background", "background-color", "border", "border-width",
     "border-color", "border-radius", "box-shadow", "opacity", "filter"}

\* the properties of the texts are written in lower case and are trimmed
isEffectProperty(cssProperty) == cssProperty \in EFFECT_CSS_PROPERTIES

\* what the first chunk of a text holds before its first property when no
\* `sel { ... }` pair is there to be replaced by its content
ChunkPrefix(text) ==
    CASE text.shape = "unclosed" -> ".sel { "
      [] text.shape = "junk" -> "{{{not css "
      [] OTHER -> ""

RECURSIVE PutAll(_, _)
PutAll(obj, decls) ==
    IF decls = <<>> THEN obj
    ELSE PutAll(Put(obj, decls[1].property, decls[1].value), Tail(decls))

\* parseAllCSSDeclarations: every chunk between ';' that holds a ':', the
\* last one included; a later declaration of a property replaces the value
parseAllCSSDeclarations(text) ==
    IF text.decls = <<>> THEN <<>>
    ELSE PutAll(<<Entry(ChunkPrefix(text) \o text.decls[1].property, text.decls[1].value)>>,
                Tail(text.decls))

\* the lexemes in which an unanchored pattern can find a length: the value's
\* own and the stops of a gradient
RECURSIVE Flat(_)
Flat(value) ==
    IF value = <<>> THEN <<>>
    ELSE (IF value[1].k = "gradient" THEN value[1].stops ELSE <<value[1]>>)
         \o Flat(Tail(value))

\* /blur\((\d+(?:\.\d+)?)px\)/
BlurMatch(value) ==
    First(SelectSeq(value, LAMBDA t : /\ t.k = "fn" /\ t.name = "blur" /\ t.unit = "px"
                                      /\ t.num.digits /\ ~t.num.neg))

\* /(\d+(?:\.\d+)?)(px|rem|em)/ starts at a digit: a sign is passed over
RadiusMatch(value) ==
    First(SelectSeq(value, LAMBDA t : /\ t.k \in {"dim", "fn"} /\ t.num.digits
                                      /\ t.unit \in {"px", "rem", "em"}))

\* /rgba?\((\d+),\s*(\d+),\s*(\d+)(?:,\s*([\d.]+))?\)/
RgbaMatch(value) == First(SelectSeq(Flat(value), LAMBDA t : t.k = "rgb"))

RadiusOf(hit) ==
    IF hit = <<>> THEN <<>>
    ELSE <<Entry("borderRadius",
                 IF hit[1].unit = "px" THEN hit[1].num.mag ELSE hit[1].num.mag * 16)>>

BackgroundOf(hit) ==
    IF hit = <<>> THEN <<>>
    ELSE <<Entry("bgColor", <<hit[1].r, hit[1].g, hit[1].b>>)>>
         \o (IF hit[1].hasA THEN <<Entry("bgAlpha", hit[1].a)>> ELSE <<>>)

\* extractEffectValue: the entries to put into effectOverrides, none for null
extractEffectValue(property, value, m) ==
    CASE property = "backdrop-filter" ->
            IF BlurMatch(value) = <<>> THEN <<>>
            ELSE <<Entry("blur", BlurMatch(value)[1].num.mag)>>
      [] property = "border-radius" -> RadiusOf(RadiusMatch(value))
      [] property \in {"background", "background-color"} -> BackgroundOf(RgbaMatch(value))
      [] OTHER -> <<>>

ParsingDiag(type, property, message) ==
    [type |-> type, property |-> property, message |-> message]

NoParsing == [effectOverrides |-> <<>>, passthroughProperties |-> <<>>, diagnostics |-> <<>>]

\* one round of the loop over Object.entries(declarations)
ParseEntry(acc, e, extracted) ==
    IF ~isEffectProperty(e.key)
    THEN [acc EXCEPT !.passthroughProperties = Put(@, e.key, e.value),
                     !.diagnostics = Append(@, ParsingDiag("info", e.key, "custom"))]
    ELSE IF extracted = <<>>
    THEN [acc EXCEPT !.passthroughProperties = Put(@, e.key, e.value),
                     !.diagnostics = Append(@, ParsingDiag("warning", e.key, "unparsed"))]
    ELSE [acc EXCEPT !.effectOverrides = Spread(@, extracted),
                     !.diagnostics = Append(@, ParsingDiag("info", e.key, "mapped"))]

RECURSIVE ParseEntries(_, _, _)
ParseEntries(acc, entries, m) ==
    IF entries = <<>> THEN acc
    ELSE ParseEntries(ParseEntry(acc, entries[1],
                                 extractEffectValue(entries[1].key, entries[1].value, m)),
                      Tail(entries), m)

parseCustomCSSWithPassthrough(text, m) ==
    ParseEntries(NoParsing, parseAllCSSDeclarations(text), m)

\* the properties of the model whose name holds a '-' before a letter
Hyphenated ==
    [x \in {"border-radius", "backdrop-filter", "-webkit-backdrop-filter", "box-shadow"} |->
        CASE x = "border-radius" -> "borderRadius"
          [] x = "backdrop-filter" -> "backdropFilter"
          [] x = "-webkit-backdrop-filter" -> "WebkitBackdropFilter"
          [] OTHER -> "boxShadow"]

\* key.replace(/-([a-z])/g, (_, c) => c.toUpperCase())
CamelCase(key) ==
    LET hits == {pr \in {"", ".sel { ", "{{{not css "} \X DOMAIN Hyphenated :
                    pr[1] \o pr[2] = key}
    IN  IF hits = {} THEN key
        ELSE LET pr == CHOOSE x \in hits : TRUE IN pr[1] \o Hyphenated[pr[2]]

RECURSIVE CamelAll(_, _)
CamelAll(style, cssProps) ==
    IF cssProps = <<>> THEN style
    ELSE CamelAll(Put(style, CamelCase(cssProps[1].key), cssProps[1].value), Tail(cssProps))

cssToReactStyle(cssProps) == CamelAll(<<>>, cssProps)

\* { ...preset.baseSettings, ...preset.userOverrides }
RECURSIVE Overridden(_, _)
Overridden(settings, overrides) ==
    IF overrides = <<>> THEN settings
    ELSE Overridden((overrides[1].key :> overrides[1].value) @@ settings, Tail(overrides))

\* generated.properties: the declarations the generator writes, in its order;
\* generateNeumorphismCSS leaves 'background' empty there when it writes a gradient
PropertiesOf(text) ==
    [i \in 1..Len(text.decls) |->
        Entry(text.decls[i].property,
              IF \E j \in 1..Len(text.decls[i].value) : text.decls[i].value[j].k = "gradient"
              THEN <<>> ELSE text.decls[i].value)]

\* a merge that spreads the effect style last
MergeEffectLast(effectStyle, passthroughStyle) == Spread(passthroughStyle, effectStyle)

\* { ...effectStyle, ...passthroughStyle }
Merge(effectStyle, passthroughStyle) == Spread(effectStyle, passthroughStyle)

mergeAllLayers(m, baseSettings, p) ==
    Merge(cssToReactStyle(PropertiesOf(generateCSSForPreset(m, Overridden(baseSettings,
                                                                         p.userOverrides)))),
          cssToReactStyle(p.passthroughCSS))

\* the preset the mapper returns for the preset that was asked for
applyCustomCSSWithPassthrough(p, parsed) ==
    [userOverrides |-> Spread(p.userOverrides, parsed.effectOverrides),
     passthroughCSS |-> Spread(p.passthroughCSS, parsed.passthroughProperties),
     isCustomized |-> TRUE]

(***************************************************************************)
(* Inputs                                                                  *)
(***************************************************************************)
White == <<255, 255, 255>>

Black == <<0, 0, 0>>

MidGray == <<128, 128, 128>>

\* the declarations a hand-written text is made of
DeclPool ==
    {Decl("background", <<Rgba(255, 255, 255, 12)>>),
     Decl("background", <<Word("notacolor")>>),
     Decl("background", <<Word("constructor")>>),
     Decl("background", <<Rgba(255, 255, 255, NaN)>>),
     Decl("backdrop-filter", <<Fn("blur", Num(999), "px")>>),
     Decl("backdrop-filter", <<Fn("blur", Dot, "px")>>),
     Decl("backdrop-filter", <<Fn("blur", Num(20), "px"), Fn("saturate", Num(120), "%")>>),
     Decl("-webkit-backdrop-filter", <<Fn("blur", Num(5), "px")>>),
     Decl("border-radius", <<Px(16)>>),
     Decl("border-radius", <<Dim(Num(2), "rem")>>),
     Decl("border-radius", <<Word("auto")>>),
     Decl("border-radius", <<Dim(Num(50), "%")>>),
     Decl("border-radius", <<Dim(Num(12), "pt")>>),
     Decl("border", <<Px(9), Word("solid"), Rgba(255, 255, 255, 20)>>),
     Decl("box-shadow", <<Px(2), Px(2), Px(6), Rgba(0, 0, 0, 15), Comma,
                          Px(-2), Px(-2), Px(6), Rgba(255, 255, 255, 60)>>),
     Decl("box-shadow", <<Px(0), Px(0), Px(300), Px(10), HexTok(<<250, 204, 21>>), Comma,
                          Word("inset"), Px(0), Px(0), Px(8), HexTok(White)>>),
     Decl("box-shadow", <<Px(0), Px(0), Px(10), HexTok(White), Comma,
                          Px(0), Px(0), Px(40), Px(5), Hex5>>),
     Decl("box-shadow", <<Px(0), Px(0), Dim(Dot, "px"), HexTok(White), Comma,
                          Px(0), Px(0), Px(40), Px(5), HexTok(<<250, 204, 21>>)>>),
     Decl("opacity", <<Dim(Num(1), "")>>),
     Decl("position", <<Word("absolute")>>),
     Decl("constructor", <<Word("x")>>)}

\* every sequence of at most MaxDecls pool declarations
DeclSeqs == UNION {[1..n -> DeclPool] : n \in 0..MaxDecls}

Frames ==
    {<<"bare", TRUE>>, <<"rule", TRUE>>, <<"rule", FALSE>>, <<"unclosed", TRUE>>,
     <<"unclosed", FALSE>>, <<"strayClose", TRUE>>, <<"junk", TRUE>>}

TypedTexts == {Text(f[1], ds, f[2]) : f \in Frames, ds \in DeclSeqs}

\* a second in-range baseline and one with fields outside their ranges
AltBaseline(m) ==
    CASE m = "liquid-glass" ->
           [defaultLiquidGlass EXCEPT !.blur = 45, !.bgColor = MidGray, !.bgAlpha = 70,
                !.borderRadius = 3, !.shadowX = -5, !.shadowAlpha = 2, !.borderWidth = 4]
      [] m = "glassmorphism" ->
           [defaultGlassmorphism EXCEPT !.blur = 5, !.bgColor = Black, !.bgAlpha = 70,
                !.borderRadius = 3, !.saturation = 190, !.borderWidth = 4]
      [] m = "neumorphism" ->
           [defaultNeumorphism EXCEPT !.shape = "convex", !.bgColor = MidGray,
                !.distance = 9, !.blur = 5, !.intensity = 40, !.borderRadius = 3,
                !.lightColor = <<200, 200, 200>>, !.darkColor = <<50, 50, 50>>]
      [] m = "glow" ->
           [defaultGlow EXCEPT !.glowBlur = 160, !.glowSpread = 7, !.glowIntensity = 3,
                !.innerGlow = 50, !.glowColor = White, !.bgColor = White,
                !.borderRadius = 3]

OutOfRangeBaseline(m) ==
    CASE m = "neumorphism" ->
           [defaultNeumorphism EXCEPT !.borderRadius = 999, !.distance = 0]
      [] m = "glow" -> [defaultGlow EXCEPT !.borderRadius = 999, !.glowBlur = -3]
      [] OTHER -> [Defaults(m) EXCEPT !.borderRadius = 999, !.blur = -3]

Baselines(m) == {Defaults(m), AltBaseline(m), OutOfRangeBaseline(m)}

\* in-range integer settings handed to the generators
GenSettings(m) ==
    CASE m = "liquid-glass" ->
           {[defaultLiquidGlass EXCEPT !.blur = bl, !.bgAlpha = a, !.shadowX = x,
                                       !.shadowSpread = x, !.bgColor = c]
               : bl \in {0, 20, 60}, a \in {0, 12, 100}, x \in {-20, 0, 7},
                 c \in {White, <<245, 158, 11>>}}
      [] m = "glassmorphism" ->
           {[defaultGlassmorphism EXCEPT !.blur = bl, !.bgAlpha = a, !.shadowX = x,
                                         !.bgColor = c]
               : bl \in {0, 16, 50}, a \in {0, 10, 100}, x \in {-20, 0, 7},
                 c \in {White, <<59, 130, 246>>}}
      [] m = "neumorphism" ->
           {[defaultNeumorphism EXCEPT !.shape = sh, !.distance = d, !.intensity = i,
                                       !.bgColor = c[1], !.darkColor = c[2],
                                       !.lightColor = c[3]]
               : sh \in {"flat", "concave", "convex", "pressed"}, d \in {1, 6, 20},
                 i \in {1, 15, 50},
                 c \in {<<<<224, 229, 236>>, <<163, 177, 198>>, White>>,
                        <<MidGray, White, Black>>, <<Black, Black, Black>>}}
      [] m = "glow" ->
           {[defaultGlow EXCEPT !.glowBlur = bl, !.glowSpread = sp, !.glowIntensity = i,
                                !.innerGlow = ig, !.glowColor = c]
               : bl \in {0, 60, 200}, sp \in {0, 30}, i \in {1, 60, 100},
                 ig \in {0, 20, 100}, c \in {<<250, 204, 21>>, White}}

(***************************************************************************)
(* The calls: a text is written or generated, then parsed.                 *)
(***************************************************************************)
NoOrigin == [gen |-> FALSE, s |-> NullSettings]

FreshPreset == [userOverrides |-> <<>>, passthroughCSS |-> <<>>, isCustomized |-> FALSE]

\* a preset an earlier text has customized
CustomizedPreset ==
    [userOverrides |-> <<Entry("blur", 30)>>,
     passthroughCSS |-> <<Entry("position", <<Word("relative")>>),
                          Entry("border", <<Px(1), Word("dashed"), Word("red")>>)>>,
     isCustomized |-> TRUE]

NotApplied == [called |-> FALSE, settings |-> NullSettings]

\* nothing mounted, nothing stored, nothing queued
HooksIdle ==
    /\ editor = [lastAppliedCSS |-> Text("bare", <<>>, TRUE), status |-> "idle",
                 applied |-> NotApplied]
    /\ presets = <<>>
    /\ pending = <<>>
    /\ returned = <<>>
    /\ storage = 0

NoResult ==
    [threw |-> FALSE, settings |-> NullSettings, diagnostics |-> <<>>,
     ghostProperties |-> <<>>, clampedFields |-> <<>>, accessibility |-> NoAccessibility]

Init ==
    /\ mode \in Modes
    /\ baseline \in Baselines(mode)
    /\ css = Text("bare", <<>>, TRUE)
    /\ origin = NoOrigin
    /\ result = NoResult
    /\ preset = FreshPreset
    /\ finalStyle = <<>>
    /\ pc = "idle"
    /\ HooksIdle

\* a text written by hand
EditText ==
    /\ pc = "idle"
    /\ css' \in TypedTexts
    /\ origin' = NoOrigin
    /\ pc' = "edited"
    /\ UNCHANGED <<mode, baseline, result, preset, finalStyle, hooks>>

\* the text the mode's generator writes for some settings
Generate ==
    /\ pc = "idle"
    /\ \E s \in GenSettings(mode) :
          /\ css' = generateCSSForPreset(mode, s)
          /\ origin' = [gen |-> TRUE, s |-> s]
    /\ pc' = "edited"
    /\ UNCHANGED <<mode, baseline, result, preset, finalStyle, hooks>>

Parse ==
    /\ pc = "edited"
    /\ result' = parseAndValidateCSS(mode, css, baseline)
    /\ baseline' = CurrentAfterParse(mode, walkCSS(css), baseline)
    /\ pc' = "done"
    /\ UNCHANGED <<mode, css, origin, preset, finalStyle, hooks>>

Next == EditText \/ Generate \/ Parse

Spec == Init /\ [][Next]_vars

\* the preset manager: a stored preset, a text applied to it, its final style
PresetInit ==
    /\ mode \in Modes
    /\ baseline = Defaults(mode)
    /\ css = Text("bare", <<>>, TRUE)
    /\ origin = NoOrigin
    /\ result = NoResult
    /\ preset \in {FreshPreset, CustomizedPreset}
    /\ finalStyle = <<>>
    /\ pc = "idle"
    /\ HooksIdle

ApplyCustomCSS ==
    /\ pc = "edited"
    /\ preset' = applyCustomCSSWithPassthrough(preset, parseCustomCSSWithPassthrough(css, mode))
    /\ pc' = "applied"
    /\ UNCHANGED <<mode, baseline, css, origin, result, finalStyle, hooks>>

GetFinalStyle ==
    /\ pc \in {"idle", "applied"}
    /\ finalStyle' = mergeAllLayers(mode, baseline, preset)
    /\ pc' = "merged"
    /\ UNCHANGED <<mode, baseline, css, origin, result, preset, hooks>>

PresetNext == EditText \/ Generate \/ ApplyCustomCSS \/ GetFinalStyle

PresetSpec == PresetInit /\ [][PresetNext]_vars


(***************************************************************************)
(* Properties                                                              *)
(***************************************************************************)
Done == pc = "done"

\* the call returned a ParseResult
Returned == pc = "done" /\ ~result.threw

HasSettings == result.settings # NullSettings

RangeOf(seq) == {seq[i] : i \in 1..Len(seq)}

\* C1: whenever parseAndValidateCSS returns non-null settings, every numeric
\* field with an entry in SETTING_RANGES[mode] is a number within its
\* [min,max], whatever the baseline and whatever numeric token was extracted.
C1_RangedFieldsWithinRange ==
    (Done /\ HasSettings) =>
        \A key \in DOMAIN result.settings :
            Ranged(mode, key) =>
                /\ ~IsNaN(result.settings[key])
                /\ SETTING_RANGES[mode][key][1] <= result.settings[key]
                /\ result.settings[key] <= SETTING_RANGES[mode][key][2]

\* C2: in a returned result settings is null exactly when the walker produced zero declarations and
\* reported a syntax error; then ghostProperties and clampedFields are empty,
\* accessibility is absent and the only diagnostic is the syntax error.
C2_NullExactlyOnFailedParse ==
    Returned =>
        LET declarations == IF postcssThrows(css) THEN regexFallbackWalk(css) ELSE css.decls
        IN  /\ (~HasSettings) <=> (declarations = <<>> /\ postcssThrows(css))
            /\ (~HasSettings) =>
                  /\ result.ghostProperties = <<>>
                  /\ result.clampedFields = <<>>
                  /\ ~result.accessibility.present
                  /\ result.diagnostics = <<syntaxError>>

\* a broken text that holds a declaration the fallback does not recover
C2_NullWitness ==
    Done /\ ~HasSettings /\ postcssThrows(css) /\ css.decls # <<>>

\* C3 as stated: whenever walkCSS reports a syntax error, settings is null and
\* the diagnostics are exactly one diagnostic of severity 'error'; no result
\* with non-null settings holds an error diagnostic.
C3_SyntaxErrorAlwaysTerminal ==
    Returned =>
        /\ walkCSS(css).hasError =>
              /\ ~HasSettings
              /\ Len(result.diagnostics) = 1
              /\ result.diagnostics[1].severity = "error"
        /\ HasSettings =>
              \A i \in 1..Len(result.diagnostics) : result.diagnostics[i].severity # "error"

\* C3 amended: in a returned result a syntax error is always reported as the first diagnostic, and
\* it is terminal (settings null) exactly when the fallback recovers no
\* declaration; an error diagnostic is only ever that first one.
C3_SyntaxErrorTerminalWithoutDeclarations ==
    Returned =>
        /\ postcssThrows(css) =>
              /\ result.diagnostics # <<>>
              /\ Head(result.diagnostics) = syntaxError
              /\ (~HasSettings) <=> (regexFallbackWalk(css) = <<>>)
        /\ \A i \in 1..Len(result.diagnostics) :
              result.diagnostics[i].severity = "error" => (i = 1 /\ postcssThrows(css))

\* a broken text whose declarations were recovered and extracted
C3_RecoveredWitness ==
    /\ Done /\ HasSettings /\ postcssThrows(css)
    /\ Head(result.diagnostics).severity = "error"
    /\ result.settings # baseline

\* C4: on every input on which extraction proceeds, each declared property
\* name that is not a key of PROPERTIES_BY_MODE[mode] appears exactly once in
\* ghostProperties, and no vocabulary property appears there.
C4_GhostCompleteness ==
    (Done /\ HasSettings) =>
        LET declarations == walkCSS(css).declarations
            names == {declarations[i].property : i \in 1..Len(declarations)}
            listed(p) == {i \in 1..Len(result.ghostProperties) :
                              result.ghostProperties[i].property = p}
        IN  /\ \A p \in names :
                  IF p \in PROPERTIES_BY_MODE[mode] THEN listed(p) = {}
                  ELSE Cardinality(listed(p)) = 1
            /\ \A i \in 1..Len(result.ghostProperties) :
                  result.ghostProperties[i].property \in names \ PROPERTIES_BY_MODE[mode]

\* the CSS properties an extractor reads to set a field; a field no property
\* feeds (opacity, refractionIntensity) has none
SourceProps(m, key) ==
    IF m = "neumorphism"
    THEN CASE key = "borderRadius" -> {"border-radius"}
           [] key = "bgColor" -> {"background"}
           [] key = "shape" -> {"background", "box-shadow"}
           [] OTHER -> {"box-shadow"}
    ELSE CASE key \in {"bgColor", "bgAlpha"} -> {"background"}
           [] key \in {"blur", "saturation", "brightness"} ->
                {"backdrop-filter", "-webkit-backdrop-filter"}
           [] key = "borderRadius" -> {"border-radius"}
           [] key \in {"borderWidth", "borderColor", "borderAlpha"} -> {"border"}
           [] key \in {"shadowX", "shadowY", "shadowBlur", "shadowSpread", "shadowColor",
                       "shadowAlpha", "glowColor", "glowIntensity", "glowSpread",
                       "glowBlur", "innerGlow"} -> {"box-shadow"}
           [] OTHER -> {}

\* the property names written in the text
DeclaredProps(text) == {text.decls[i].property : i \in 1..Len(text.decls)}

\* C5 as stated: every field whose source property does not occur in the
\* input text has exactly the baseline's value.
C5_AbsentFieldsEqualBaseline ==
    (Done /\ HasSettings) =>
        \A key \in DOMAIN baseline :
            SourceProps(mode, key) \cap DeclaredProps(css) = {} =>
                result.settings[key] = baseline[key]

\* C5 amended: every field whose source property does not occur in the input
\* text has the baseline's value clamped to the field's range, which is the
\* baseline's value itself whenever that value is in range.
C5_AbsentFieldsEqualClampedBaseline ==
    (Done /\ HasSettings) =>
        \A key \in DOMAIN baseline :
            SourceProps(mode, key) \cap DeclaredProps(css) = {} =>
                result.settings[key] =
                    IF Ranged(mode, key)
                    THEN MathMin(SETTING_RANGES[mode][key][2],
                                 MathMax(SETTING_RANGES[mode][key][1], baseline[key]))
                    ELSE baseline[key]

\* only border-radius is written: the radius is replaced, the rest is kept from
\* a baseline that differs from the mode's defaults
C5_MergeWitness ==
    /\ Done /\ HasSettings
    /\ DeclaredProps(css) = {"border-radius"}
    /\ baseline = AltBaseline(mode)
    /\ result.settings.borderRadius # baseline.borderRadius
    /\ result.settings.bgColor = baseline.bgColor

\* C6: no exception escapes parseAndValidateCSS; a ParseResult is returned
\* whose settings are null or a complete record of the mode, and a syntax
\* error or an unparseable background ends as a diagnostic and an untouched
\* field.
C6_NeverThrows ==
    Done =>
        /\ ~result.threw
        /\ HasSettings => DOMAIN result.settings = DOMAIN Defaults(mode)
        /\ (~HasSettings) => ~result.accessibility.present
        /\ postcssThrows(css) => syntaxError \in RangeOf(result.diagnostics)
        /\ (HasSettings /\ mode # "neumorphism"
              /\ Diag("warning", "background", "unparseable-background")
                    \in RangeOf(result.diagnostics)) =>
              result.settings.bgColor = baseline.bgColor

\* C7: clampWithTracking lists a field in clampedFields if and only if it
\* changed the field's value; applied to a record whose ranged fields are all
\* in range, or to its own output, it changes nothing and lists nothing.
C7_ClampTrackedExactlyAndIdempotent ==
    (Done /\ HasSettings) =>
        LET raw == Extract(mode, walkCSS(css).declarations, baseline).s
            second == clampWithTracking(mode, result.settings)
        IN  /\ \A key \in DOMAIN raw :
                  (key \in RangeOf(result.clampedFields)) <=> (result.settings[key] # raw[key])
            /\ second.clampedFields = <<>>
            /\ second.diagnostics = <<>>
            /\ second.settings = result.settings

\* the ids of the mode's semantic rules
RuleIds(m) == {RulesOf(m)[i].id : i \in 1..Len(RulesOf(m))}

\* C8: the rule diagnostics of a result are exactly those of the mode's rules
\* whose predicate holds on the returned (clamped) settings, one per rule, in
\* rule order and with the rule's severity; blur(999px) in glassmorphism with
\* the default baseline gives blur 50, clampedFields ['blur'] and the
\* blur-performance warning.
C8_AllRulesOnClampedSettings ==
    (Done /\ HasSettings) =>
        LET fromRules == SelectSeq(result.diagnostics,
                             LAMBDA d : d.message \in RuleIds(mode))
            holding == SelectSeq(RulesOf(mode),
                           LAMBDA rule : RuleCheck(mode, rule.id, result.settings))
        IN  /\ Len(fromRules) = Len(holding)
            /\ \A i \in 1..Len(holding) :
                  fromRules[i] = Diag(holding[i].severity, holding[i].property, holding[i].id)
            /\ (/\ mode = "glassmorphism"
                /\ baseline = defaultGlassmorphism
                /\ css = Text("bare",
                              <<Decl("backdrop-filter", <<Fn("blur", Num(999), "px")>>)>>,
                              TRUE)) =>
                  /\ result.settings.blur = 50
                  /\ result.clampedFields = <<"blur">>
                  /\ fromRules = <<Diag("warning", "blur", "blur-performance")>>

\* the blur(999px) scenario: the rule fires on the clamped blur
C8_ScenarioWitness ==
    /\ Done /\ mode = "glassmorphism" /\ baseline = defaultGlassmorphism
    /\ css = Text("bare", <<Decl("backdrop-filter", <<Fn("blur", Num(999), "px")>>)>>, TRUE)
    /\ result.settings.blur = 50
    /\ Diag("warning", "blur", "blur-performance") \in RangeOf(result.diagnostics)

\* |a - b| <= 1 of two numbers
Within1(a, b) == ~IsNaN(a) /\ ~IsNaN(b) /\ a - b <= 1 /\ b - a <= 1

\* C9: parsing the text generateGlowCSS wrote for in-range integer settings s
\* reproduces glowBlur, glowSpread, glowIntensity and innerGlow within 1,
\* glowColor exactly, and the background, border, border-radius and
\* backdrop-filter fields, whatever the baseline.
C9_GlowRoundTrip ==
    (Done /\ origin.gen /\ mode = "glow") =>
        /\ HasSettings
        /\ Within1(result.settings.glowBlur, origin.s.glowBlur)
        /\ Within1(result.settings.glowSpread, origin.s.glowSpread)
        /\ Within1(result.settings.glowIntensity, origin.s.glowIntensity)
        /\ Within1(result.settings.innerGlow, origin.s.innerGlow)
        /\ result.settings.glowColor = origin.s.glowColor
        /\ result.settings.bgColor = origin.s.bgColor
        /\ Within1(result.settings.bgAlpha, origin.s.bgAlpha)
        /\ Within1(result.settings.borderRadius, origin.s.borderRadius)
        /\ Within1(result.settings.borderWidth, origin.s.borderWidth)
        /\ result.settings.borderColor = origin.s.borderColor
        /\ Within1(result.settings.borderAlpha, origin.s.borderAlpha)
        /\ Within1(result.settings.blur, origin.s.blur)
        /\ Within1(result.settings.saturation, origin.s.saturation)
        /\ Within1(result.settings.brightness, origin.s.brightness)

\* C10: parsing the text generateNeumorphismCSS wrote for in-range integer
\* settings s of any shape reproduces borderRadius, distance, blur and
\* intensity within 1 and bgColor, darkColor and lightColor exactly, whatever
\* the baseline.
C10_NeumorphismRoundTrip ==
    (Done /\ origin.gen /\ mode = "neumorphism") =>
        /\ HasSettings
        /\ Within1(result.settings.borderRadius, origin.s.borderRadius)
        /\ Within1(result.settings.distance, origin.s.distance)
        /\ Within1(result.settings.blur, origin.s.blur)
        /\ Within1(result.settings.intensity, origin.s.intensity)
        /\ result.settings.bgColor = origin.s.bgColor
        /\ result.settings.darkColor = origin.s.darkColor
        /\ result.settings.lightColor = origin.s.lightColor

\* the fields the generated text of a glass mode encodes
GlassEncoded(m) ==
    {"bgColor", "bgAlpha", "blur", "saturation", "borderRadius", "borderWidth",
     "borderColor", "borderAlpha", "shadowX", "shadowY", "shadowBlur", "shadowColor",
     "shadowAlpha"}
        \cup (IF m = "liquid-glass" THEN {"brightness", "shadowSpread"} ELSE {})

\* C11: parsing the text generateLiquidGlassCSS / generateGlassmorphismCSS wrote
\* for in-range integer settings s reproduces every field the text encodes
\* (numbers within 1, colours exactly) whatever the baseline, and lists no
\* ghost property.
C11_GlassRoundTrip ==
    (Done /\ origin.gen /\ mode \in {"liquid-glass", "glassmorphism"}) =>
        /\ HasSettings
        /\ result.ghostProperties = <<>>
        /\ \A key \in GlassEncoded(mode) :
              IF key \in StringFields THEN result.settings[key] = origin.s[key]
              ELSE Within1(result.settings[key], origin.s[key])

\* a generated liquid-glass text with a negative offset and spread, parsed over
\* a baseline that differs from the settings in the encoded fields
C11_RoundTripWitness ==
    /\ Done /\ origin.gen /\ mode = "liquid-glass"
    /\ baseline = AltBaseline(mode)
    /\ origin.s.shadowSpread = -20
    /\ result.settings.shadowSpread = -20
    /\ result.settings.bgColor # baseline.bgColor

\* the declarations a mode's extractor consumes
Consumed(m) ==
    IF m = "neumorphism" THEN {"background", "border-radius", "box-shadow"}
    ELSE {"background", "backdrop-filter", "border-radius", "border", "box-shadow"}

\* the value is one the extractor of the mode can take nothing from
FailsSubGrammar(m, prop, value) ==
    CASE prop = "background" ->
            /\ ~ColorParse(value).ok
            /\ m = "neumorphism" => \A i \in 1..Len(value) : value[i].k # "gradient"
      [] prop = "backdrop-filter" ->
            /\ ~parseBackdropFilter(value).blur.has
            /\ ~parseBackdropFilter(value).saturate.has
            /\ ~parseBackdropFilter(value).brightness.has
      [] prop = "border-radius" -> ~FirstLexemeUnit(value).ok
      [] prop = "border" -> ~parseBorder(value).hasWidth /\ ~parseBorder(value).hasColor
      [] OTHER -> ParsedLayers(value) = <<>>

\* the settings fields a declaration is extracted into
FieldsOf(prop) ==
    CASE prop = "background" -> {"bgColor", "bgAlpha"}
      [] prop = "backdrop-filter" -> {"blur", "saturation", "brightness"}
      [] prop = "border-radius" -> {"borderRadius"}
      [] prop = "border" -> {"borderWidth", "borderColor", "borderAlpha"}
      [] OTHER -> {"shadowX", "shadowY", "shadowBlur", "shadowSpread", "shadowColor",
                   "shadowAlpha", "glowColor", "glowBlur", "glowSpread", "glowIntensity",
                   "innerGlow", "darkColor", "lightColor", "distance", "intensity", "shape"}

\* C12: in every mode, a consumed declaration (background, backdrop-filter,
\* border-radius, border, box-shadow) whose value fails its sub-grammar leaves
\* a warning-severity diagnostic for that property in result.diagnostics, and
\* the settings fields it would have set keep their baseline values.
C12_UnparseableValuesReported ==
    (Returned /\ HasSettings /\ baseline = Defaults(mode)) =>
        \A prop \in Consumed(mode) :
            LET decl == Get(walkCSS(css).declarations, prop)
            IN  (decl.found /\ FailsSubGrammar(mode, prop, decl.value)) =>
                    /\ \E i \in 1..Len(result.diagnostics) :
                          /\ result.diagnostics[i].severity = "warning"
                          /\ result.diagnostics[i].property = prop
                    /\ \A key \in FieldsOf(prop) \cap DOMAIN baseline :
                          result.settings[key] = baseline[key]

\* C13: whenever the result carries an accessibility entry, its contrast
\* ratio lies between 1 and 21, passesAA holds exactly from 4.5, passesAAA
\* exactly from 7.0, and passesAAA implies passesAA (ratios in hundredths).
C13_AccessibilityConsistent ==
    (Returned /\ result.accessibility.present) =>
        LET a == result.accessibility
        IN  /\ ~IsNaN(a.contrastRatio)
            /\ a.contrastRatio >= 100 /\ a.contrastRatio <= 2100
            /\ a.passesAA <=> (a.contrastRatio >= 450)
            /\ a.passesAAA <=> (a.contrastRatio >= 700)
            /\ a.passesAAA => a.passesAA

C15_PassthroughWinsConflicts ==
    pc = "merged" =>
        \A i \in 1..Len(cssToReactStyle(preset.passthroughCSS)) :
            LET e == cssToReactStyle(preset.passthroughCSS)[i]
            IN  Has(finalStyle, e.key) /\ Lookup(finalStyle, e.key) = e.value

\* a final style in which a passthrough value has replaced a generated one
C15_ConflictWitness ==
    /\ pc = "merged"
    /\ \E i \in 1..Len(preset.passthroughCSS) :
          LET e == preset.passthroughCSS[i]
              generated == PropertiesOf(generateCSSForPreset(mode,
                               Overridden(baseline, preset.userOverrides)))
          IN  /\ e.key \in DOMAIN Hyphenated
              /\ Has(generated, e.key)
              /\ Lookup(generated, e.key) # e.value
              /\ Lookup(finalStyle, CamelCase(e.key)) = e.value

\* C16: every numeric effect override parseCustomCSSWithPassthrough returns
\* (blur, borderRadius, bgAlpha) lies within the range SETTING_RANGES
\* registers for the key in the mode, before it is merged into userOverrides.
C16_EffectOverridesClamped ==
    pc = "applied" =>
        LET overrides == parseCustomCSSWithPassthrough(css, mode).effectOverrides
        IN  \A i \in 1..Len(overrides) :
                Ranged(mode, overrides[i].key) =>
                    /\ ~IsNaN(overrides[i].value)
                    /\ overrides[i].value >= SETTING_RANGES[mode][overrides[i].key][1]
                    /\ overrides[i].value <= SETTING_RANGES[mode][overrides[i].key][2]

\* the parsed layers of the box-shadow declaration, inset ones included
ShadowLayers == ParsedLayers(Get(walkCSS(css).declarations, "box-shadow").value)

\* the parsed layers whose colour is darker, or lighter, than bgColor
DarkerThanBg(layers, bgColor) ==
    SelectSeq(layers, LAMBDA l : l.hasColor /\ relativeLuminance(fromHex(l.color))
                                                < relativeLuminance(fromHex(bgColor)))

LighterThanBg(layers, bgColor) ==
    SelectSeq(layers, LAMBDA l : l.hasColor /\ relativeLuminance(fromHex(l.color))
                                                > relativeLuminance(fromHex(bgColor)))

TwoLayerShadow ==
    <<Px(2), Px(2), Px(6), Rgba(0, 0, 0, 15), Comma,
      Px(-2), Px(-2), Px(6), Rgba(255, 255, 255, 60)>>

\* C17: in neumorphism a box-shadow holding `inset` gives shape 'pressed';
\* of the parsed layers, inset or not, the one darker than bgColor gives
\* darkColor, distance (|x| or |y|), blur and intensity (its alpha) and the
\* one lighter than bgColor gives lightColor; the two-layer shadow over
\* mid-gray gives black, white, distance 2, blur 6, intensity 15.
C17_NeumorphismShadowLayers ==
    (Returned /\ HasSettings /\ mode = "neumorphism"
        /\ Get(walkCSS(css).declarations, "box-shadow").found) =>
        LET s == result.settings
            value == Get(walkCSS(css).declarations, "box-shadow").value
            darker == DarkerThanBg(ShadowLayers, s.bgColor)
            lighter == LighterThanBg(ShadowLayers, s.bgColor)
        IN  /\ (\E i \in 1..Len(value) : IsInset(value[i])) => s.shape = "pressed"
            /\ darker # <<>> =>
                  /\ s.darkColor = darker[1].color
                  /\ s.distance = ClampOf(mode, "distance",
                                     MathAbs(OrElse(darker[1].x, OrElse(darker[1].y, 0))))
                  /\ s.blur = ClampOf(mode, "blur", darker[1].blur)
                  /\ s.intensity = ClampOf(mode, "intensity", darker[1].alpha)
            /\ lighter # <<>> => s.lightColor = lighter[1].color
            /\ (value = TwoLayerShadow /\ s.bgColor = MidGray) =>
                  /\ s.darkColor = Black /\ s.lightColor = White
                  /\ s.distance = 2 /\ s.blur = 6 /\ s.intensity = 15

\* C18: in neumorphism the auto-suggest info diagnostic is in the result if
\* and only if the box-shadow yields exactly one parsed layer (not zero, not
\* two or more), and with it the light colour is the baseline's, not a
\* synthesized one.
C18_AutoSuggestIffOneLayer ==
    (Returned /\ HasSettings /\ mode = "neumorphism") =>
        LET suggested == Diag("info", "box-shadow", "auto-suggest")
                            \in RangeOf(result.diagnostics)
        IN  /\ suggested <=> (/\ Get(walkCSS(css).declarations, "box-shadow").found
                              /\ Len(ShadowLayers) = 1)
            /\ suggested => result.settings.lightColor = baseline.lightColor

\* what extractGlow returns for the walked declarations, before the clamp
RawGlow == extractGlow(walkCSS(css).declarations, baseline).s

OuterLayers == SelectSeq(ShadowLayers, LAMBDA l : ~l.inset)

\* a layer whose blur is a number no other layer's blur exceeds
LargestBlur(l, layers) ==
    /\ ~IsNaN(l.blur)
    /\ \A j \in 1..Len(layers) : IsNaN(layers[j].blur) \/ layers[j].blur <= l.blur

\* the layer is the source of the outer glow: what it carries is taken from
\* it, what it lacks (a parsable colour, a spread) stays as it was
SetsOuterGlow(l, raw, before) ==
    /\ raw.glowBlur = l.blur
    /\ raw.glowColor = (IF l.hasColor THEN l.color ELSE before.glowColor)
    /\ raw.glowIntensity = (IF l.hasColor THEN RoundDiv(l.alpha * 10, 6)
                            ELSE before.glowIntensity)
    /\ raw.glowSpread = (IF l.hasSpread THEN l.spread ELSE before.glowSpread)

RadiusToken == FirstLexemeUnit(Get(walkCSS(css).declarations, "border-radius").value)

RadiusConverted == Diag("info", "border-radius", "converted") \in RangeOf(result.diagnostics)

\* C20: in liquid-glass, glassmorphism and glow, whenever borderRadius is
\* extracted from a first token whose unit is not px (rem, em, pt, cm, mm, %,
\* vh, vw) the result holds an info diagnostic for 'border-radius', and it
\* holds none when the token is in px or has no unit.
C20_RadiusUnitConversionReported ==
    (Returned /\ HasSettings /\ mode # "neumorphism"
        /\ Get(walkCSS(css).declarations, "border-radius").found /\ RadiusToken.ok) =>
        RadiusConverted <=> (RadiusToken.unit # "px")

\* C21: after a syntax error the fallback tokenizer emits, in source order,
\* one declaration for every top-level chunk with a property and a value, the
\* last chunk included when the text does not end with ';'.
C21_FallbackEmitsEveryChunk ==
    (Done /\ postcssThrows(css)) =>
        LET emitted == walkCSS(css).declarations
        IN  /\ Len(emitted) = Len(css.decls)
            /\ \A i \in 1..Len(emitted) : emitted[i].value = css.decls[i].value

\* the declarations that no later declaration of the same property follows
RECURSIVE LastOnly(_)
LastOnly(decls) ==
    IF decls = <<>> THEN <<>>
    ELSE IF \E j \in 2..Len(decls) : decls[j].property = decls[1].property
         THEN LastOnly(Tail(decls))
         ELSE <<decls[1]>> \o LastOnly(Tail(decls))

\* the walk without the declarations a later one of the same property follows
LastOnlyWalk(w) == [w EXCEPT !.declarations = LastOnly(@)]

\* the settings and diagnostics are those of `expected`, and there is one
\* ghost for every declaration whose property the mode does not know
ReadsAs(r, expected, declarations, m) ==
    /\ r.settings = expected.settings
    /\ r.diagnostics = expected.diagnostics
    /\ Len(r.ghostProperties)
          = Cardinality({i \in 1..Len(declarations) :
                ~InOperator(declarations[i].property, PROPERTIES_BY_MODE[m])})

\* C22: of several declarations of one property only the last is read (the
\* settings, and the diagnostics, are those of the text without the earlier
\* ones), while every raw declaration is classified for ghost reporting, so
\* a repeated foreign property is listed once per declaration.
C22_LastDeclarationWins ==
    (Returned /\ HasSettings) =>
        ReadsAs(result, ParseWalked(mode, LastOnlyWalk(walkCSS(css)), baseline),
                walkCSS(css).declarations, mode)

\* a property declared twice with different values, and a foreign property
\* declared twice: the second value is in the settings, both ghosts are listed
C22_RepeatedWitness ==
    /\ Returned /\ HasSettings /\ ~postcssThrows(css) /\ Len(css.decls) = 2
    /\ css.decls[1].property = "border-radius" /\ css.decls[2].property = "border-radius"
    /\ FirstLexemeUnit(css.decls[1].value).ok /\ FirstLexemeUnit(css.decls[2].value).ok
    /\ FirstLexemeUnit(css.decls[1].value).px # FirstLexemeUnit(css.decls[2].value).px
    /\ result.settings.borderRadius = FirstLexemeUnit(css.decls[2].value).px
    /\ result.settings.borderRadius # baseline.borderRadius

\* the alpha the analysis blends with: 100% in neumorphism
AlphaFor(m, settings) == IF m = "neumorphism" THEN 100 ELSE settings.bgAlpha

\* bgLum * alpha + 0.5 * (1 - alpha), in millionths
EffectiveLum(lum, alpha) == lum * alpha + 5000 * (100 - alpha)

\* (L + 0.05) / 0.05 and 1.05 / (L + 0.05), in hundredths
ContrastWithBlack(e6) == e6 \div 500 + 100
ContrastWithWhite(e6) == 105000000 \div (e6 + 50000)

\* C23: the contrast is computed from bgLum * alpha + 0.5 * (1 - alpha), with
\* alpha 100% in neumorphism; the recommended text colour is white only when
\* white's contrast is at least black's and black only when black's is at
\* least white's (to the hundredth), contrastRatio is the larger of the two,
\* and a #000000 surface at alpha 100 gives 21, AAA and white text.
C23_ContrastFromBlendedLuminance ==
    (Returned /\ result.accessibility.present) =>
        LET a == result.accessibility
            alpha == AlphaFor(mode, result.settings)
            e6 == EffectiveLum(relativeLuminance(fromHex(result.settings.bgColor)),
                               alpha)
        IN  IF IsNaN(alpha)
            THEN /\ IsNaN(a.contrastRatio)
                 /\ a.recommendedTextColor = <<0, 0, 0>>
            ELSE /\ a.contrastRatio
                       = MathMax(ContrastWithBlack(e6), ContrastWithWhite(e6))
                 /\ a.recommendedTextColor \in {<<255, 255, 255>>, <<0, 0, 0>>}
                 /\ a.recommendedTextColor = <<255, 255, 255>>
                       => ContrastWithWhite(e6) >= ContrastWithBlack(e6)
                 /\ a.recommendedTextColor = <<0, 0, 0>>
                       => ContrastWithBlack(e6) >= ContrastWithWhite(e6)
                 /\ (result.settings.bgColor = <<0, 0, 0>> /\ alpha = 100)
                       => /\ a.contrastRatio = 2100 /\ a.passesAAA
                          /\ a.recommendedTextColor = <<255, 255, 255>>

\* a translucent surface: the contrast is that of the blend, not of the colour
C23_BlendWitness ==
    /\ Returned /\ result.accessibility.present /\ mode # "neumorphism"
    /\ ~IsNaN(result.settings.bgAlpha) /\ result.settings.bgAlpha < 100
    /\ result.accessibility.contrastRatio
          # MathMax(ContrastWithBlack(relativeLuminance(fromHex(result.settings.bgColor)) * 100),
                    ContrastWithWhite(relativeLuminance(fromHex(result.settings.bgColor)) * 100))

\* C28: every result that carries an accessibility entry passes WCAG AA, so
\* the low-contrast recommendation is never produced.
C28_AlwaysPassesAA ==
    (Returned /\ result.accessibility.present) => result.accessibility.passesAA

\* C27: parsing the text generateNeumorphismCSS wrote for settings s returns
\* the shape of s, for each of the four shapes and whatever the shape of the
\* baseline.
C27_NeumorphismShapeRoundTrip ==
    (Done /\ origin.gen /\ mode = "neumorphism") =>
        /\ HasSettings
        /\ result.settings.shape = origin.s.shape

\* the pipeline stage that pushes a diagnostic: 1 the walker's syntax error,
\* 2 an extractor, 3 the clamp, 4 a semantic rule
StageOf(d) ==
    CASE d.message = "syntax" -> 1
      [] d.message \in {"converted", "auto-suggest", "unparseable-background"} -> 2
      [] d.message = "clamped" -> 3
      [] OTHER -> 4

\* the position of the rule a diagnostic came from in the rule list of a mode
RuleIndex(m, d) ==
    CHOOSE k \in 1..Len(RulesOf(m)) : RuleDiag(RulesOf(m)[k]) = d

FromClamp(d) == StageOf(d) = 3

\* C29: at every point of a run the diagnostics of the result are in
\* pipeline order: the syntax error, the extractor's diagnostics, one clamp
\* diagnostic per entry of clampedFields in the same order with no field
\* twice, and the diagnostics of the semantic rules in rule-list order.
C29_DiagnosticsInPipelineOrder ==
    (Returned /\ HasSettings) =>
        LET d == result.diagnostics
            clamps == SelectSeq(d, FromClamp)
        IN  /\ \A i, j \in 1..Len(d) : i < j => StageOf(d[i]) <= StageOf(d[j])
            /\ \A i \in 2..Len(d) : StageOf(d[i]) # 1
            /\ Len(clamps) = Len(result.clampedFields)
            /\ \A i \in 1..Len(clamps) : clamps[i].property = result.clampedFields[i]
            /\ \A i, j \in 1..Len(result.clampedFields) :
                  i # j => result.clampedFields[i] # result.clampedFields[j]
            /\ \A i \in 1..Len(d) : StageOf(d[i]) = 4 =>
                  \E k \in 1..Len(RulesOf(mode)) : RuleDiag(RulesOf(mode)[k]) = d[i]
            /\ \A i, j \in 1..Len(d) :
                  (i < j /\ StageOf(d[i]) = 4 /\ StageOf(d[j]) = 4)
                     => RuleIndex(mode, d[i]) < RuleIndex(mode, d[j])

\* a result that holds a diagnostic of each of the four stages
C29_AllStagesWitness ==
    /\ Returned /\ HasSettings
    /\ \A st \in 1..4 : \E i \in 1..Len(result.diagnostics) :
          StageOf(result.diagnostics[i]) = st

(***************************************************************************)
(* The CSS editor component.  Its cssText is `css`, its settings prop      *)
(* `baseline`, and `result` is the parseResult memo, which React computes  *)
(* again only in a render in which cssText or mode differs from the render *)
(* before (deps [cssText, mode]).  An exception thrown while rendering     *)
(* unmounts the component.                                                 *)
(***************************************************************************)
\* the texts typed into the editor
EditorTexts ==
    {Text("rule", <<d>>, TRUE) :
        d \in {Decl("border-radius", <<Px(16)>>),
               Decl("border-radius", <<Dim(Num(2), "rem")>>),
               Decl("background", <<Word("constructor")>>)}}
      \cup {Text("junk", <<>>, TRUE)}

\* the memo after a render with text `text`, the render before having had `old`
Memo(m, text, old, settings, memo) ==
    IF text = old THEN memo ELSE parseAndValidateCSS(m, text, settings)

AfterRender(r) == IF r.threw THEN "crashed" ELSE "mounted"

EditorInit ==
    /\ mode \in Modes
    /\ baseline \in Baselines(mode)
    /\ css = generateCSSForPreset(mode, baseline)
    /\ origin = NoOrigin
    /\ result = parseAndValidateCSS(mode, css, baseline)
    /\ preset = FreshPreset
    /\ finalStyle = <<>>
    /\ pc = "mounted"
    /\ editor = [lastAppliedCSS |-> css, status |-> "idle", applied |-> NotApplied]
    /\ presets = <<>>
    /\ pending = <<>>
    /\ returned = <<>>
    /\ storage = 0

handleCSSChange ==
    /\ pc = "mounted"
    /\ \E val \in EditorTexts :
          /\ css' = val
          /\ editor' = [editor EXCEPT !.status = IF val = editor.lastAppliedCSS
                                                 THEN "idle" ELSE "modified"]
          /\ result' = Memo(mode, val, css, baseline, result)
    /\ pc' = AfterRender(result')
    /\ UNCHANGED <<mode, baseline, origin, preset, finalStyle, presets,
                   pending, returned, storage>>

\* the parent renders the editor with other settings (a slider moved)
SettingsPropChange ==
    /\ pc = "mounted"
    /\ baseline' \in Baselines(mode) \ {baseline}
    /\ UNCHANGED <<mode, css, origin, result, preset, finalStyle, pc, hooks>>

handleApply ==
    /\ pc = "mounted"
    /\ editor' = IF result.settings = NullSettings
                 THEN [editor EXCEPT !.status = "error"]
                 ELSE [lastAppliedCSS |-> css, status |-> "applied",
                       applied |-> [called |-> TRUE, settings |-> result.settings]]
    /\ UNCHANGED <<mode, baseline, css, origin, result, preset, finalStyle, pc,
                   presets, pending, returned, storage>>

handleRegenerate ==
    /\ pc = "mounted"
    /\ css' = generateCSSForPreset(mode, baseline)
    /\ editor' = [editor EXCEPT !.lastAppliedCSS = css', !.status = "idle"]
    /\ result' = Memo(mode, css', css, baseline, result)
    /\ pc' = AfterRender(result')
    /\ UNCHANGED <<mode, baseline, origin, preset, finalStyle, presets,
                   pending, returned, storage>>

EditorNext == handleCSSChange \/ SettingsPropChange \/ handleApply \/ handleRegenerate

EditorSpec == EditorInit /\ [][EditorNext]_vars

NoOverrides == [defined |-> FALSE, value |-> <<>>]

NoCustomCSS == [defined |-> FALSE, value |-> Text("bare", <<>>, TRUE)]

Defined(v) == [defined |-> TRUE, value |-> v]

\* the entries of p.userOverrides as `{ ...p.userOverrides }` spreads them
OwnEntries(opt) == IF opt.defined THEN opt.value ELSE <<>>

RECURSIVE Assign(_, _)
Assign(base, entries) ==
    IF entries = <<>> THEN base
    ELSE Assign([base EXCEPT ![entries[1].key] = entries[1].value], Tail(entries))

mergeSettings(base, overrides) ==
    IF ~overrides.defined \/ overrides.value = <<>> THEN base
    ELSE Assign(base, overrides.value)

getEffectiveSettings(p) == mergeSettings(p.baseSettings, p.userOverrides)

migrateDefaults ==
    <<[id |-> "frost", mode |-> "liquid-glass", baseSettings |-> defaultLiquidGlass,
       userOverrides |-> NoOverrides, customCSS |-> NoCustomCSS, isCustomized |-> FALSE]>>

applyBulkOverrides(ps, presetId, overrides) ==
    [i \in 1..Len(ps) |->
        IF ps[i].id = presetId
        THEN [ps[i] EXCEPT !.userOverrides = Defined(Spread(OwnEntries(@), overrides)),
                           !.isCustomized = TRUE]
        ELSE ps[i]]

applyUserOverride(ps, presetId, key, value) ==
    [i \in 1..Len(ps) |->
        IF ps[i].id = presetId
        THEN [ps[i] EXCEPT !.userOverrides = Defined(Put(OwnEntries(@), key, value)),
                           !.isCustomized = TRUE]
        ELSE ps[i]]

setCustomCSS(ps, presetId, text) ==
    [i \in 1..Len(ps) |->
        IF ps[i].id = presetId
        THEN [ps[i] EXCEPT !.customCSS = Defined(text), !.isCustomized = TRUE]
        ELSE ps[i]]

resetToBase(ps, presetId) ==
    [i \in 1..Len(ps) |->
        IF ps[i].id = presetId
        THEN [ps[i] EXCEPT !.userOverrides = NoOverrides, !.customCSS = NoCustomCSS,
                           !.isCustomized = FALSE]
        ELSE ps[i]]

\* a commit that forgets the overrides instead of merging them
commitCustomizationsDiscarding(ps, presetId) == resetToBase(ps, presetId)

commitCustomizations(ps, presetId) ==
    [i \in 1..Len(ps) |->
        IF ps[i].id = presetId
        THEN [ps[i] EXCEPT !.baseSettings = mergeSettings(@, ps[i].userOverrides),
                           !.userOverrides = NoOverrides, !.customCSS = NoCustomCSS,
                           !.isCustomized = FALSE]
        ELSE ps[i]]

\* { ...preset, id, isCustomized: false } appended
addPreset(ps, newPreset) == Append(ps, [newPreset EXCEPT !.isCustomized = FALSE])

\* { ...p, ...updates }, updates as entries over the fields of a preset
updatePreset(ps, id, updates) ==
    [i \in 1..Len(ps) |-> IF ps[i].id = id THEN Assign(ps[i], updates) ELSE ps[i]]

deletePreset(ps, id) == SelectSeq(ps, LAMBDA p : p.id # id)

\* next.splice(fromIndex, 1) and next.splice(toIndex, 0, moved), 0-based
reorderPresets(ps, fromIndex, toIndex) ==
    LET moved == ps[fromIndex + 1]
        rest == SubSeq(ps, 1, fromIndex) \o SubSeq(ps, fromIndex + 2, Len(ps))
    IN  SubSeq(rest, 1, toIndex) \o <<moved>> \o SubSeq(rest, toIndex + 1, Len(rest))

\* the ids presets are created and addressed with
PresetIds == {"frost", "new"}

\* the overrides a slider or the CSS parser hands in
OverrideKeys == {"blur"}

OverrideValues == {30}

BulkOverrides == {<<>>} \cup {<<Entry("borderRadius", v)>> : v \in OverrideValues}

AppliedText == Text("rule", <<Decl("border-radius", <<Px(16)>>)>>, TRUE)

IdsOf(ps) == {ps[i].id : i \in 1..Len(ps)}

ManagerInit ==
    /\ mode = "liquid-glass"
    /\ baseline = Defaults(mode)
    /\ css = Text("bare", <<>>, TRUE)
    /\ origin = NoOrigin
    /\ result = NoResult
    /\ preset = FreshPreset
    /\ finalStyle = <<>>
    /\ pc = "idle"
    /\ editor = [lastAppliedCSS |-> Text("bare", <<>>, TRUE), status |-> "idle",
                 applied |-> NotApplied]
    /\ presets = migrateDefaults
    /\ pending = <<>>
    /\ returned = <<>>
    /\ storage = 0

ManagerUnchanged ==
    UNCHANGED <<mode, baseline, css, origin, result, preset, finalStyle, pc, editor,
                pending, returned, storage>>

ApplyUserOverride ==
    /\ \E id \in PresetIds, key \in OverrideKeys, value \in OverrideValues :
          /\ presets' = applyUserOverride(presets, id, key, value)
    /\ ManagerUnchanged

ApplyBulkOverrides ==
    /\ \E id \in PresetIds, overrides \in BulkOverrides :
          /\ presets' = applyBulkOverrides(presets, id, overrides)
    /\ ManagerUnchanged

SetCustomCSS ==
    /\ \E id \in PresetIds :
          /\ presets' = setCustomCSS(presets, id, AppliedText)
    /\ ManagerUnchanged

ResetToBase ==
    /\ \E id \in PresetIds :
          /\ presets' = resetToBase(presets, id)
    /\ ManagerUnchanged

CommitCustomizations ==
    /\ \E id \in PresetIds :
          /\ presets' = commitCustomizations(presets, id)
    /\ ManagerUnchanged

\* Admin's openNewPreset: a preset of the default settings under a new id
OpenNewPreset ==
    /\ \E id \in PresetIds \ IdsOf(presets) :
          /\ presets' = addPreset(presets,
                 [id |-> id, mode |-> "liquid-glass", baseSettings |-> defaultLiquidGlass,
                  userOverrides |-> NoOverrides, customCSS |-> NoCustomCSS,
                  isCustomized |-> FALSE])
    /\ ManagerUnchanged

\* Admin's duplicatePreset: a copy of a listed preset under a new id
DuplicatePreset ==
    /\ \E id \in PresetIds \ IdsOf(presets), i \in 1..Len(presets) :
          /\ presets' = addPreset(presets, [presets[i] EXCEPT !.id = id])
    /\ ManagerUnchanged

\* Admin's handleModeChange: the mode and, with it, the defaults of the mode
UpdatePreset ==
    /\ \E id \in PresetIds, m \in {"liquid-glass", "glassmorphism"} :
          /\ presets' = updatePreset(presets, id,
                 <<Entry("mode", m), Entry("baseSettings", Defaults(m)),
                   Entry("userOverrides", NoOverrides), Entry("customCSS", NoCustomCSS),
                   Entry("isCustomized", FALSE)>>)
    /\ ManagerUnchanged

DeletePreset ==
    /\ \E id \in PresetIds :
          /\ presets' = deletePreset(presets, id)
    /\ ManagerUnchanged

\* the arrows of the list: a preset moves one place up or down
ReorderPresets ==
    /\ \E idx \in 0..(Len(presets) - 1), to \in 0..(Len(presets) - 1) :
          /\ to \in {idx - 1, idx + 1}
          /\ presets' = reorderPresets(presets, idx, to)
    /\ ManagerUnchanged

ResetToDefaults ==
    /\ presets' = migrateDefaults
    /\ ManagerUnchanged

ManagerNext ==
    \/ ApplyUserOverride \/ ApplyBulkOverrides \/ SetCustomCSS \/ ResetToBase
    \/ CommitCustomizations \/ OpenNewPreset \/ DuplicatePreset \/ UpdatePreset
    \/ DeletePreset \/ ReorderPresets \/ ResetToDefaults

ManagerSpec == ManagerInit /\ [][ManagerNext]_vars

\* C25: after any sequence of operations of the enhanced preset manager, a
\* preset with isCustomized false has neither userOverrides nor customCSS.
C25_UncustomizedHasNoOverrides ==
    \A i \in 1..Len(presets) :
        ~presets[i].isCustomized =>
            /\ ~presets[i].userOverrides.defined
            /\ ~presets[i].customCSS.defined

\* what resetToBase leaves of the list commitCustomizations returned
ResetAfterCommit(ps, id) == resetToBase(commitCustomizations(ps, id), id)

\* C30: a commit of a listed preset leaves the effective settings of every
\* preset as they were, leaves the committed preset without userOverrides and
\* customCSS and with isCustomized false, and leaves every other preset as
\* it was; a resetToBase of the same preset after it changes no effective
\* settings and no other preset.
C30_CommitPreservesEffectiveSettings ==
    [][\A id \in IdsOf(presets) :
          presets' = commitCustomizations(presets, id) =>
             /\ Len(presets') = Len(presets)
             /\ \A i \in 1..Len(presets) :
                   /\ getEffectiveSettings(presets'[i]) = getEffectiveSettings(presets[i])
                   /\ getEffectiveSettings(ResetAfterCommit(presets, id)[i])
                         = getEffectiveSettings(presets[i])
                   /\ presets[i].id = id =>
                         /\ ~presets'[i].userOverrides.defined
                         /\ ~presets'[i].customCSS.defined
                         /\ ~presets'[i].isCustomized
                   /\ presets[i].id # id =>
                         /\ presets'[i] = presets[i]
                         /\ ResetAfterCommit(presets, id)[i] = presets[i]]_vars

\* a committed preset: its overrides are in its baseSettings, which no
\* defaults hold, and it counts as not customized
C30_CommittedWitness ==
    \E i \in 1..Len(presets) :
        /\ ~presets[i].isCustomized /\ ~presets[i].userOverrides.defined
        /\ presets[i].baseSettings.blur \in OverrideValues
        /\ presets[i].baseSettings.borderRadius \in OverrideValues
        /\ Defaults(presets[i].mode).blur \notin OverrideValues
        /\ Defaults(presets[i].mode).borderRadius \notin OverrideValues

(***************************************************************************)
(* applyCustomCSSWithPassthrough and React's scheduling of the updater it  *)
(* hands to setPresets.  React runs an updater inside setPresets when the  *)
(* component has no update queued, and otherwise queues it for the next    *)
(* render; the caller cannot tell which.  The call returns its local       *)
(* `diagnostics`, which only the updater assigns.  The target preset is    *)
(* `preset`, the css argument `css`.                                       *)
(***************************************************************************)
\* the texts handed to the call
CallTexts == {t \in TypedTexts : Len(t.decls) <= 1}

\* the updater runs inside setPresets, before the call returns
CallRunsUpdater ==
    /\ pc = "idle"
    /\ css' \in CallTexts
    /\ preset' = applyCustomCSSWithPassthrough(preset, parseCustomCSSWithPassthrough(css', mode))
    /\ storage' = storage + 1
    /\ returned' = parseCustomCSSWithPassthrough(css', mode).diagnostics
    /\ pc' = "applied"
    /\ UNCHANGED <<mode, baseline, origin, result, finalStyle, editor, presets, pending>>

\* setPresets queues the updater; the call returns the empty list it began with
CallQueuesUpdater ==
    /\ pc = "idle"
    /\ css' \in CallTexts
    /\ pending' = Append(pending, css')
    /\ returned' = <<>>
    /\ pc' = "queued"
    /\ UNCHANGED <<mode, baseline, origin, result, preset, finalStyle, editor, presets,
                   storage>>

\* the next render runs the queued updater
RenderRunsUpdater ==
    /\ pc = "queued"
    /\ preset' = applyCustomCSSWithPassthrough(preset,
                     parseCustomCSSWithPassthrough(pending[1], mode))
    /\ storage' = storage + 1
    /\ pending' = Tail(pending)
    /\ pc' = "applied"
    /\ UNCHANGED <<mode, baseline, css, origin, result, finalStyle, editor, presets,
                   returned>>

UpdaterNext == CallRunsUpdater \/ CallQueuesUpdater \/ RenderRunsUpdater

UpdaterSpec == PresetInit /\ [][UpdaterNext]_vars

\* C26: once applyCustomCSSWithPassthrough has returned, what it returned is
\* the diagnostics of parsing its css for the mode of the target preset,
\* whether its updater ran inside the call or was queued, and the storage
\* was written once when the updater has run and not before.
C26_ReturnsParsedDiagnostics ==
    pc \in {"applied", "queued"} =>
        /\ returned = parseCustomCSSWithPassthrough(css, mode).diagnostics
        /\ storage = IF pending = <<>> THEN 1 ELSE 0

(***************************************************************************)
(* Texts that declare a property more than once.                           *)
(***************************************************************************)
Repeats(decls) ==
    \E i, j \in 1..Len(decls) : i < j /\ decls[i].property = decls[j].property

\* a hand-written text in which some property is declared again
EditRepeated ==
    /\ pc = "idle"
    /\ css' \in {t \in TypedTexts : Repeats(t.decls)}
    /\ origin' = NoOrigin
    /\ pc' = "edited"
    /\ UNCHANGED <<mode, baseline, result, preset, finalStyle, hooks>>

RepeatedNext == EditRepeated \/ Parse

RepeatedSpec == Init /\ [][RepeatedNext]_vars

====
